---- MODULE Spec2Model ----
(***************************************************************************)
(* Verification model of the ssbc-sip B2BUA core.                          *)
(*                                                                         *)
(*   Spec        B2buaManager (src/src/b2bua.rs): legs, pairing, capacity   *)
(*               and expiry cleanup over four call-ids.                    *)
(*   StateSpec   B2buaManager: the dialog states of one leg under every    *)
(*               class of response.                                        *)
(*   RelaySpec   B2buaManager: media relay records from SDP bodies.        *)
(*   TxSpec      EnhancedTransaction (src/src/b2bua_enhanced.rs): RFC 3261 *)
(*               timers, retransmission backoff and state transitions.     *)
(*                                                                         *)
(* The three manager specifications run the same operations and differ in  *)
(* the sets their arguments are drawn from.                                *)
(*                                                                         *)
(* Option<T> is a sequence of length 0 (None) or 1 (Some(x)); a HashMap is *)
(* a function whose DOMAIN is the set of keys; a Vec is a sequence.        *)
(***************************************************************************)
EXTENDS Integers, Sequences, FiniteSets, TLC

VARIABLES
    calls,          \* B2buaManager.calls: Call-ID -> CallLeg
    call_pairs,     \* B2buaManager.call_pairs: Call-ID -> Call-ID
    transactions,   \* B2buaManager.transactions: Transaction ID -> Call-ID
    now,            \* the wall clock read by current_timestamp(), in seconds
    last,           \* the last manager call: operation, arguments, result
    scenario,       \* how far the calls on leg "a" have followed Scenario
    tx,             \* one EnhancedTransaction
    tx_clock,       \* the wall clock read by EnhancedTransaction, in seconds
    tx_last,        \* the last transaction call: operation, argument, events
    tm_transactions, \* EnhancedTransactionManager.transactions: branch -> tx
    timers_enabled, \* EnhancedTransactionManager.timers_enabled
    tm_clock,       \* the wall clock read by the transaction manager
    tm_last,        \* the last transaction manager call and what it returned
    pool,           \* SipMessagePool.pool: the VecDeque of shells
    pool_max_size,  \* SipMessagePool.max_size
    pool_lock,      \* the thread holding the pool's Mutex, if any
    pool_pc,        \* where each thread stands in get() or in a handle's drop
    handles,        \* the PooledSipMessage handles each thread holds
    msg,            \* a SipMessage: its raw text and what parsing stored
    modifier,       \* the ZeroCopyModifier made from msg, if any
    output,         \* the bytes build() returned, if any
    msg_last,       \* the last call on the message or modifier, its result
    sdp_text,       \* the SDP text handed to SessionDescription::parse
    session,        \* what SessionDescription::parse returned, if called
    text_field,     \* a field of a buffer: the buffer's length, its offsets
    text_range      \* the TextRange made from the field's offsets, if any

mgr_vars == <<calls, call_pairs, transactions, now, last, scenario>>
tx_vars == <<tx, tx_clock, tx_last>>
tm_vars == <<tm_transactions, timers_enabled, tm_clock, tm_last>>
pool_vars == <<pool, pool_max_size, pool_lock, pool_pc, handles>>
msg_vars == <<msg, modifier, output, msg_last>>
sdp_vars == <<sdp_text, session>>
range_vars == <<text_field, text_range>>
vars == <<calls, call_pairs, transactions, now, last, scenario,
          tx, tx_clock, tx_last,
          tm_transactions, timers_enabled, tm_clock, tm_last,
          pool, pool_max_size, pool_lock, pool_pc, handles,
          msg, modifier, output, msg_last,
          sdp_text, session, text_field, text_range>>

\* What the operations of one component leave alone: the other components.
mgr_frame == <<tx_vars, tm_vars, pool_vars, msg_vars, sdp_vars,
                range_vars>>
tx_frame == <<mgr_vars, tm_vars, pool_vars, msg_vars, sdp_vars,
               range_vars>>
tm_frame == <<mgr_vars, tx_vars, pool_vars, msg_vars, sdp_vars,
               range_vars>>
pool_frame == <<mgr_vars, tx_vars, tm_vars, msg_vars, sdp_vars,
                 range_vars>>
msg_frame == <<mgr_vars, tx_vars, tm_vars, pool_vars, sdp_vars,
                range_vars>>
sdp_frame == <<mgr_vars, tx_vars, tm_vars, pool_vars, msg_vars, range_vars>>
range_frame == <<mgr_vars, tx_vars, tm_vars, pool_vars, msg_vars, sdp_vars>>

----------------------------------------------------------------------------
(* Option and HashMap *)

None == <<>>
Some(x) == <<x>>
IsSome(o) == Len(o) = 1
Unwrap(o) == o[1]

\* let v = value; Body(v): the value is computed once, then used.
Bind(value, Body(_)) == CHOOSE result \in {Body(v) : v \in {value}} : TRUE

EmptyMap == <<>>
MapInsert(m, k, v) == [x \in DOMAIN m \cup {k} |-> IF x = k THEN v ELSE m[x]]
MapRemove(m, k) == [x \in DOMAIN m \ {k} |-> m[x]]
MapGet(m, k) == IF k \in DOMAIN m THEN Some(m[k]) ELSE None

----------------------------------------------------------------------------
(* Bounds of the model *)

MaxCalls == 2       \* max_calls passed to B2buaManager::new
CallTimeout == 1    \* call_timeout_seconds passed to B2buaManager::new
MaxTime == 2        \* the manager's clock stops advancing here

InviteIds == {"a", "b"}       \* Call-IDs carried by incoming INVITEs
GenIds == {"g1", "g2"}        \* Call-IDs generate_call_id() can return
CallIds == InviteIds \cup GenIds

U16 == 65536

----------------------------------------------------------------------------
(* CallState, src/src/b2bua.rs *)

Idle == [tag |-> "Idle"]
Calling == [tag |-> "Calling"]
Proceeding == [tag |-> "Proceeding"]
Connecting == [tag |-> "Connecting"]
Connected == [tag |-> "Connected"]
Disconnecting == [tag |-> "Disconnecting"]
Terminated == [tag |-> "Terminated"]
Failed(reason) == [tag |-> "Failed", reason |-> reason]

(* SessionDescription values handed to the manager: the connection and     *)
(* the media descriptions are what extract_media_info reads.               *)
Media(t, p) == [media_type |-> t, port |-> p]
SdpA == [connection |-> Some("10.0.0.1"),
         media_descriptions |-> <<Media("video", 9000), Media("audio", 5004),
                                  Media("audio", 5006)>>]
SdpB == [connection |-> Some("10.0.0.2"),
         media_descriptions |-> <<Media("audio", 6000)>>]
SdpNoAudio == [connection |-> Some("10.0.0.3"),
               media_descriptions |-> <<Media("video", 9000)>>]
SdpNoConn == [connection |-> None,
              media_descriptions |-> <<Media("audio", 7000)>>]

----------------------------------------------------------------------------
(* B2buaManager *)

current_timestamp == now

\* The leg handle_invite builds (dialog fields the operations read or write).
IncomingLeg(from_tag, sdp) ==
    [state |-> Calling,
     remote_tag |-> Some(from_tag),
     last_activity |-> current_timestamp,
     sdp |-> sdp,
     media_relay |-> None,
     peer_leg_id |-> None]

\* The leg create_outgoing_call builds.
OutgoingLeg(incoming_call_id, sdp) ==
    [state |-> Calling,
     remote_tag |-> None,
     last_activity |-> current_timestamp,
     sdp |-> sdp,
     media_relay |-> None,
     peer_leg_id |-> Some(incoming_call_id)]

\* What a call leaves in `last`: the operation, its call-id and other argument,
\* the kind of result (Ok, StateError, ResourceError, Panic) and the Ok value.
Result(op, call_id, arg, result, ret) ==
    [op |-> op, call_id |-> call_id, call_id_b |-> "", arg |-> arg,
     result |-> result, ret |-> ret]

\* The dialog of scenario S6 on one leg: INVITE, 100, 180, 200, ACK, BYE.
Scenario ==
    <<[op |-> "handle_invite", arg |-> 0],
      [op |-> "handle_response", arg |-> 100],
      [op |-> "handle_response", arg |-> 180],
      [op |-> "handle_response", arg |-> 200],
      [op |-> "handle_ack", arg |-> 0],
      [op |-> "handle_bye", arg |-> 0]>>

\* Whether the call recorded in l addresses or removes the leg call_id.
Touches(l, call_id) ==
    \/ l.call_id = call_id
    \/ l.call_id_b = call_id
    \/ l.op = "cleanup_expired" /\ \E i \in DOMAIN l.ret : l.ret[i] = call_id

\* The number of calls of Scenario that the calls on leg "a" have followed,
\* once the call recorded in l is counted; calls on other legs may come
\* between them.
ScenarioStep(k, l) ==
    IF /\ Touches(l, "a") /\ l.call_id = "a" /\ l.result = "Ok"
       /\ l.op = Scenario[1].op
      THEN 1
    ELSE IF /\ Touches(l, "a") /\ l.call_id = "a" /\ l.result = "Ok"
            /\ k >= 1 /\ k < Len(Scenario)
            /\ l.op = Scenario[k + 1].op /\ l.arg = Scenario[k + 1].arg
      THEN k + 1
    ELSE IF Touches(l, "a") THEN 0
    ELSE k

Observe == scenario' = ScenarioStep(scenario, last')

\* generate_call_id(): "call-<secs>-<hash of the time>", an id no leg, pairing
\* entry or peer reference of the manager carries.
InUse ==
    DOMAIN calls \cup DOMAIN call_pairs
        \cup {call_pairs[c] : c \in DOMAIN call_pairs}
        \cup {Unwrap(calls[c].peer_leg_id) :
                c \in {d \in DOMAIN calls : IsSome(calls[d].peer_leg_id)}}
generate_call_id(gen) == gen \ InUse

handle_invite(call_id, from_tag, sdp) ==
    /\ IF Cardinality(DOMAIN calls) >= MaxCalls
         THEN /\ last' = Result("handle_invite", call_id, 0, "ResourceError", None)
              /\ UNCHANGED calls
         ELSE /\ calls' = MapInsert(calls, call_id, IncomingLeg(from_tag, sdp))
              /\ last' = Result("handle_invite", call_id, 0, "Ok", Some(call_id))
    /\ UNCHANGED <<call_pairs, transactions, now, mgr_frame>>
    /\ Observe

\* LinkLegs recording the pairing in one direction only.
LinkLegs_OneWay(pairs, incoming_call_id, outgoing_call_id) ==
    MapInsert(pairs, incoming_call_id, outgoing_call_id)

\* "Link the legs": the two call_pairs.insert calls of create_outgoing_call.
LinkLegs(pairs, incoming_call_id, outgoing_call_id) ==
    MapInsert(MapInsert(pairs, incoming_call_id, outgoing_call_id),
              outgoing_call_id, incoming_call_id)

create_outgoing_call(incoming_call_id, sdp, gen) ==
    /\ IF incoming_call_id \notin DOMAIN calls
         THEN /\ last' = Result("create_outgoing_call", incoming_call_id,
                                0, "StateError", None)
              /\ UNCHANGED <<calls, call_pairs>>
         ELSE \E outgoing_call_id \in generate_call_id(gen) :
              /\ calls' =
                    LET inserted == MapInsert(calls, outgoing_call_id,
                                        OutgoingLeg(incoming_call_id, sdp))
                    IN [inserted EXCEPT ![incoming_call_id].peer_leg_id =
                                            Some(outgoing_call_id)]
              /\ call_pairs' = LinkLegs(call_pairs, incoming_call_id,
                                        outgoing_call_id)
              /\ last' = Result("create_outgoing_call", incoming_call_id,
                                0, "Ok", Some(outgoing_call_id))
    /\ UNCHANGED <<transactions, now, mgr_frame>>
    /\ Observe

\* ResponseState with 2xx taken for the established call.
ResponseState_Established(status_code) ==
    IF status_code >= 100 /\ status_code <= 199 THEN Some(Proceeding)
    ELSE IF status_code >= 200 /\ status_code <= 299 THEN Some(Connected)
    ELSE IF status_code >= 300 /\ status_code <= 699 THEN Some(Failed(status_code))
    ELSE None

\* The match on status_code in handle_response; None is the error arm.
ResponseState(status_code) ==
    IF status_code >= 100 /\ status_code <= 199 THEN Some(Proceeding)
    ELSE IF status_code >= 200 /\ status_code <= 299 THEN Some(Connecting)
    ELSE IF status_code >= 300 /\ status_code <= 699 THEN Some(Failed(status_code))
    ELSE None

handle_response(call_id, status_code, to_tag, sdp) ==
    /\ IF call_id \notin DOMAIN calls
         THEN /\ last' = Result("handle_response", call_id, status_code, "StateError", None)
              /\ UNCHANGED calls
         ELSE LET leg == calls[call_id]
                  tagged == IF IsSome(to_tag)
                              THEN [leg EXCEPT !.remote_tag = to_tag] ELSE leg
                  described == IF IsSome(sdp)
                                 THEN [tagged EXCEPT !.sdp = sdp] ELSE tagged
                  next == ResponseState(status_code)
              IN IF IsSome(next)
                   THEN /\ calls' = [calls EXCEPT ![call_id] =
                                [described EXCEPT
                                    !.state = Unwrap(next),
                                    !.last_activity = current_timestamp]]
                        /\ last' = Result("handle_response", call_id, status_code, "Ok", None)
                   ELSE /\ calls' = [calls EXCEPT ![call_id] = described]
                        /\ last' = Result("handle_response", call_id,
                                          status_code, "StateError", None)
    /\ UNCHANGED <<call_pairs, transactions, now, mgr_frame>>
    /\ Observe

\* handle_ack without its state validation.
handle_ack_Unchecked(call_id) ==
    /\ IF call_id \notin DOMAIN calls
         THEN /\ last' = Result("handle_ack", call_id, 0, "StateError", None)
              /\ UNCHANGED calls
         ELSE /\ calls' = [calls EXCEPT ![call_id] =
                      [@ EXCEPT !.state = Connected,
                                !.last_activity = current_timestamp]]
              /\ last' = Result("handle_ack", call_id, 0, "Ok", None)
    /\ UNCHANGED <<call_pairs, transactions, now, mgr_frame>>
    /\ Observe

handle_ack(call_id) ==
    /\ IF call_id \notin DOMAIN calls
         THEN /\ last' = Result("handle_ack", call_id, 0, "StateError", None)
              /\ UNCHANGED calls
         ELSE IF calls[call_id].state # Connecting
           THEN /\ last' = Result("handle_ack", call_id, 0, "StateError", None)
                /\ UNCHANGED calls
           ELSE /\ calls' = [calls EXCEPT ![call_id] =
                        [@ EXCEPT !.state = Connected,
                                  !.last_activity = current_timestamp]]
                /\ last' = Result("handle_ack", call_id, 0, "Ok", None)
    /\ UNCHANGED <<call_pairs, transactions, now, mgr_frame>>
    /\ Observe

handle_bye(call_id) ==
    /\ calls' = IF call_id \in DOMAIN calls
                  THEN [calls EXCEPT ![call_id] =
                        [@ EXCEPT !.state = Disconnecting,
                                  !.last_activity = current_timestamp]]
                  ELSE calls
    /\ last' = Result("handle_bye", call_id, 0, "Ok", MapGet(call_pairs, call_id))
    /\ UNCHANGED <<call_pairs, transactions, now, mgr_frame>>
    /\ Observe

\* terminate_call on a manager state st = [calls, call_pairs, transactions]:
\* the state it leaves and the peer call-id it returns.
TerminateCall(st, call_id) ==
    LET peer_call_id == MapGet(st.call_pairs, call_id)
        unpaired == MapRemove(st.call_pairs, call_id)
    IN [calls |-> MapRemove(st.calls, call_id),
        call_pairs |-> IF IsSome(peer_call_id)
                         THEN MapRemove(unpaired, Unwrap(peer_call_id))
                         ELSE unpaired,
        transactions |-> [t \in {u \in DOMAIN st.transactions :
                                    st.transactions[u] # call_id}
                            |-> st.transactions[t]],
        ret |-> peer_call_id]

ManagerState == [calls |-> calls, call_pairs |-> call_pairs,
                 transactions |-> transactions]

terminate_call(call_id) ==
    LET r == TerminateCall(ManagerState, call_id)
    IN /\ calls' = r.calls
       /\ call_pairs' = r.call_pairs
       /\ transactions' = r.transactions
       /\ last' = Result("terminate_call", call_id, 0, "Ok", r.ret)
       /\ UNCHANGED <<now, mgr_frame>>
       /\ Observe

\* extract_media_info: the session connection address and the port of the
\* first audio media, or an error.
\* FirstAudio keeping the last audio media it meets instead of returning at
\* the first.
FirstAudio_Last(media_descriptions) ==
    LET audio == {i \in DOMAIN media_descriptions :
                    media_descriptions[i].media_type = "audio"}
    IN IF audio = {} THEN None
       ELSE Some(media_descriptions[CHOOSE i \in audio :
                                        \A j \in audio : i >= j])

FirstAudio(media_descriptions) ==
    LET audio == {i \in DOMAIN media_descriptions :
                    media_descriptions[i].media_type = "audio"}
    IN IF audio = {} THEN None
       ELSE Some(media_descriptions[CHOOSE i \in audio :
                                        \A j \in audio : i <= j])

extract_media_info(sdp) ==
    IF ~IsSome(sdp.connection)
      THEN [ok |-> FALSE, address |-> "", port |-> 0]
      ELSE LET media == FirstAudio(sdp.media_descriptions)
           IN IF IsSome(media)
                THEN [ok |-> TRUE, address |-> Unwrap(sdp.connection),
                      port |-> Unwrap(media).port]
                ELSE [ok |-> FALSE, address |-> "", port |-> 0]

MediaRelay(local_rtp_port, remote) ==
    [local_rtp_port |-> local_rtp_port,
     local_rtcp_port |-> (local_rtp_port + 1) % U16,
     remote_rtp_address |-> remote.address,
     remote_rtp_port |-> remote.port]

\* Whether setup_media_relay returns an error before it builds the relays.
RelayError(call_id_a, call_id_b) ==
    \/ call_id_a \notin DOMAIN calls
    \/ call_id_b \notin DOMAIN calls
    \/ ~IsSome(calls[call_id_a].sdp)
    \/ ~extract_media_info(Unwrap(calls[call_id_a].sdp)).ok
    \/ ~IsSome(calls[call_id_b].sdp)
    \/ ~extract_media_info(Unwrap(calls[call_id_b].sdp)).ok

RelayResult(call_id_a, call_id_b, result) ==
    [Result("setup_media_relay", call_id_a, 0, result, None)
        EXCEPT !.call_id_b = call_id_b]

\* local_rtp_port + 1 on u16: an overflow panics where overflow checks are
\* compiled in and wraps where they are not.
setup_media_relay(call_id_a, call_id_b, local_rtp_port_a, local_rtp_port_b) ==
    /\ IF RelayError(call_id_a, call_id_b)
         THEN /\ last' = RelayResult(call_id_a, call_id_b, "StateError")
              /\ UNCHANGED calls
         ELSE \E overflow_checks \in BOOLEAN :
              IF /\ overflow_checks
                 /\ \/ local_rtp_port_a + 1 >= U16
                    \/ local_rtp_port_b + 1 >= U16
                THEN /\ last' = RelayResult(call_id_a, call_id_b, "Panic")
                     /\ UNCHANGED calls
                ELSE LET remote_a == extract_media_info(
                                        Unwrap(calls[call_id_a].sdp))
                         remote_b == extract_media_info(
                                        Unwrap(calls[call_id_b].sdp))
                         relay_a == MediaRelay(local_rtp_port_a, remote_b)
                         relay_b == MediaRelay(local_rtp_port_b, remote_a)
                         with_a == [calls EXCEPT ![call_id_a].media_relay =
                                                    Some(relay_a)]
                     IN /\ calls' = [with_a EXCEPT ![call_id_b].media_relay =
                                                    Some(relay_b)]
                        /\ last' = RelayResult(call_id_a, call_id_b, "Ok")
    /\ UNCHANGED <<call_pairs, transactions, now, mgr_frame>>
    /\ Observe

\* The legs cleanup_expired's filter selects.
Expired ==
    {c \in DOMAIN calls :
        current_timestamp - calls[c].last_activity > CallTimeout}

\* The orders in which iterating a HashMap can yield the keys in S.
IterationOrders(S) ==
    {order \in [1..Cardinality(S) -> S] :
        \A i, j \in 1..Cardinality(S) : order[i] = order[j] => i = j}

\* The loop of cleanup_expired over the expired call-ids, in the order given.
RECURSIVE CleanupLoop(_, _, _)
CleanupLoop(expired, st, expired_calls) ==
    IF expired = <<>>
      THEN [st |-> st, expired_calls |-> expired_calls]
      ELSE LET call_id == Head(expired)
               r == TerminateCall(st, call_id)
               with_peer == IF IsSome(r.ret)
                              THEN Append(expired_calls, Unwrap(r.ret))
                              ELSE expired_calls
           IN CleanupLoop(Tail(expired),
                          [calls |-> r.calls, call_pairs |-> r.call_pairs,
                           transactions |-> r.transactions],
                          Append(with_peer, call_id))

cleanup_expired ==
    \E expired \in IterationOrders(Expired) :
        LET r == CleanupLoop(expired, ManagerState, <<>>)
        IN /\ calls' = r.st.calls
           /\ call_pairs' = r.st.call_pairs
           /\ transactions' = r.st.transactions
           /\ last' = Result("cleanup_expired", "", 0, "Ok", r.expired_calls)
           /\ UNCHANGED <<now, mgr_frame>>
           /\ Observe

\* A second passes on the manager's clock.
Tick ==
    /\ now < MaxTime
    /\ now' = now + 1
    /\ UNCHANGED <<calls, call_pairs, transactions, last, scenario, mgr_frame>>

----------------------------------------------------------------------------
(* EnhancedTransaction, src/src/b2bua_enhanced.rs.  Durations are in       *)
(* milliseconds, timestamps in seconds.                                    *)

T1 == 500                   \* TimerConfig::default t1
T2 == 4000                  \* TimerConfig::default t2
TimerC == 180000            \* TimerConfig::default timer_c
TimerD == 32000             \* TimerConfig::default timer_d
InitialInterval == 500      \* current_retransmit_interval set by new
timer_a_initial == T1
timer_b == T1 * 64
timer_e_initial == T1
timer_f == T1 * 64

as_secs(duration) == duration \div 1000

MaxTxClock == 1     \* the transaction's clock stops advancing here
MaxTimers == 3      \* transition_state arms no timer beyond this many

\* The instants passed to process_timer_expiry, as offsets from the clock.
Offsets == {0, 1, 3, 7, 11, 32, 33, 180, 212}

TransactionStates ==
    {"Calling", "Proceeding", "Completed", "Confirmed", "Terminated"}

Timer(name, expiry) == [name |-> name, expiry |-> expiry]

\* EnhancedTransaction::new arming the retransmission timer on every transport.
EnhancedTransaction_new_AlwaysRetransmit(method, is_reliable, created_at) ==
    [method |-> method,
     state |-> "Calling",
     created_at |-> created_at,
     retransmission_count |-> 0,
     active_timers |->
        IF method = "INVITE"
          THEN (IF TRUE
                  THEN <<Timer("A", created_at + as_secs(timer_a_initial))>>
                  ELSE <<>>)
               \o <<Timer("B", created_at + as_secs(timer_b))>>
          ELSE (IF TRUE
                  THEN <<Timer("E", created_at + as_secs(timer_e_initial))>>
                  ELSE <<>>)
               \o <<Timer("F", created_at + as_secs(timer_f))>>,
     is_reliable |-> is_reliable,
     current_retransmit_interval |-> InitialInterval]

\* EnhancedTransaction::new at the instant created_at.
EnhancedTransaction_new(method, is_reliable, created_at) ==
    [method |-> method,
     state |-> "Calling",
     created_at |-> created_at,
     retransmission_count |-> 0,
     active_timers |->
        IF method = "INVITE"
          THEN (IF ~is_reliable
                  THEN <<Timer("A", created_at + as_secs(timer_a_initial))>>
                  ELSE <<>>)
               \o <<Timer("B", created_at + as_secs(timer_b))>>
          ELSE (IF ~is_reliable
                  THEN <<Timer("E", created_at + as_secs(timer_e_initial))>>
                  ELSE <<>>)
               \o <<Timer("F", created_at + as_secs(timer_f))>>,
     is_reliable |-> is_reliable,
     current_retransmit_interval |-> InitialInterval]

\* Vec::remove(idx), with indices from 1.
RemoveAt(seq, idx) == SubSeq(seq, 1, idx - 1) \o SubSeq(seq, idx + 1, Len(seq))

\* The indices of the timers with expiry <= current_time, ascending.
RECURSIVE ExpiredFrom(_, _, _)
ExpiredFrom(timers, i, current_time) ==
    IF i > Len(timers) THEN <<>>
    ELSE (IF timers[i].expiry <= current_time THEN <<i>> ELSE <<>>)
         \o ExpiredFrom(timers, i + 1, current_time)

\* Backoff without the cap at T2.
Backoff_Uncapped(interval) == interval * 2

\* Exponential backoff: the interval doubled, capped at T2.
Backoff(interval) == IF interval * 2 > T2 THEN T2 ELSE interval * 2

\* An event with the timer that produced it and that timer's expiry.
Event(event, timer) ==
    [event |-> event, timer |-> timer.name, expiry |-> timer.expiry]

\* One iteration of the loop over the expired timers: the timer at idx is
\* removed and handled. r carries the transaction and the events so far.
HandleExpired(r, idx, current_time) ==
    LET timer == r.tx.active_timers[idx]
        removed == [r.tx EXCEPT !.active_timers = RemoveAt(@, idx)]
    IN CASE timer.name \in {"A", "E"} ->
              LET interval == Backoff(removed.current_retransmit_interval)
              IN [tx |-> [removed EXCEPT
                            !.retransmission_count = @ + 1,
                            !.current_retransmit_interval = interval,
                            !.active_timers = Append(@,
                                Timer(timer.name,
                                      current_time + as_secs(interval)))],
                  events |-> Append(r.events, Event("Retransmit", timer))]
         [] timer.name \in {"B", "F"} ->
              [tx |-> [removed EXCEPT !.state = "Terminated"],
               events |-> Append(r.events, Event("Timeout", timer))]
         [] timer.name = "C" ->
              [tx |-> removed,
               events |-> Append(r.events, Event("ProvisionalTimeout", timer))]
         [] timer.name = "D" ->
              [tx |-> [removed EXCEPT !.state = "Terminated"],
               events |-> r.events]
         [] OTHER -> [tx |-> removed, events |-> r.events]

\* The loop of process_timer_expiry: the expired indices in reverse order.
RECURSIVE ProcessExpired(_, _, _, _)
ProcessExpired(r, expired, k, current_time) ==
    IF k = 0 THEN r
    ELSE ProcessExpired(HandleExpired(r, expired[k], current_time),
                        expired, k - 1, current_time)

ProcessTimerExpiry(t, current_time) ==
    LET expired == ExpiredFrom(t.active_timers, 1, current_time)
    IN ProcessExpired([tx |-> t, events |-> <<>>], expired, Len(expired),
                      current_time)

TxResult(op, arg, events) == [op |-> op, arg |-> arg, events |-> events]

process_timer_expiry(current_time) ==
    LET r == ProcessTimerExpiry(tx, current_time)
    IN /\ tx' = r.tx
       /\ tx_last' = TxResult("process_timer_expiry", current_time, r.events)
       /\ UNCHANGED <<tx_clock, tx_frame>>

Retain(timers, names) == SelectSeq(timers, LAMBDA t : t.name \notin names)

\* transition_state where Completed leaves Timer C running.
TransitionState_KeepC(t, new_state, at) ==
    LET set == [t EXCEPT !.state = new_state]
    IN CASE new_state = "Proceeding" ->
              [set EXCEPT !.active_timers =
                    Retain(@, {"A", "E"})
                    \o (IF t.method = "INVITE"
                          THEN <<Timer("C", at + as_secs(TimerC))>>
                          ELSE <<>>)]
         [] new_state = "Completed" ->
              [set EXCEPT !.active_timers =
                    Retain(@, {"A", "E"})
                    \o (IF ~t.is_reliable
                          THEN <<Timer("D", at + as_secs(TimerD))>>
                          ELSE <<>>)]
         [] new_state = "Terminated" ->
              [set EXCEPT !.active_timers = <<>>]
         [] OTHER -> set

TransitionState(t, new_state, at) ==
    LET set == [t EXCEPT !.state = new_state]
    IN CASE new_state = "Proceeding" ->
              [set EXCEPT !.active_timers =
                    Retain(@, {"A", "E"})
                    \o (IF t.method = "INVITE"
                          THEN <<Timer("C", at + as_secs(TimerC))>>
                          ELSE <<>>)]
         [] new_state = "Completed" ->
              [set EXCEPT !.active_timers =
                    Retain(@, {"A", "E", "C"})
                    \o (IF ~t.is_reliable
                          THEN <<Timer("D", at + as_secs(TimerD))>>
                          ELSE <<>>)]
         [] new_state = "Terminated" ->
              [set EXCEPT !.active_timers = <<>>]
         [] OTHER -> set

transition_state(new_state) ==
    LET t == TransitionState(tx, new_state, tx_clock)
    IN /\ Len(t.active_timers) <= MaxTimers
       /\ tx' = t
       /\ tx_last' = TxResult("transition_state", 0, <<>>)
       /\ UNCHANGED <<tx_clock, tx_frame>>

\* A second passes on the transaction's clock.
TxTick ==
    /\ tx_clock < MaxTxClock
    /\ tx_clock' = tx_clock + 1
    /\ UNCHANGED <<tx, tx_last, tx_frame>>

----------------------------------------------------------------------------
(* EnhancedTransactionManager, src/src/b2bua_enhanced.rs.  Its transactions *)
(* are reachable from outside only through get_transaction, which hands out *)
(* a shared reference: they change in process_timers alone.                 *)

MaxCreateClock == 4     \* transactions are created up to this instant

\* The clock runs until every transaction created has passed Timer B or F.
TmHorizon == MaxCreateClock + as_secs(timer_b)

Branches == {"z9hG4bK1", "z9hG4bK2"}
Methods == {"INVITE", "OPTIONS"}

\* all_events is the Vec of (branch, events) pairs, in the iteration order
\* of the HashMap: kept as the set of the pairs.
TmResult(op, branch_id, result, all_events) ==
    [op |-> op, branch_id |-> branch_id, result |-> result,
     all_events |-> all_events]

\* create_transaction replacing the transaction of a branch already present.
create_transaction_Overwrite(branch_id, method, is_reliable) ==
    /\ tm_clock <= MaxCreateClock
    /\ tm_transactions' =
            MapInsert(tm_transactions, branch_id,
                      EnhancedTransaction_new(method, is_reliable, tm_clock))
    /\ tm_last' = TmResult("create_transaction", branch_id,
                           IF branch_id \in DOMAIN tm_transactions
                             THEN "StateError" ELSE "Ok", {})
    /\ UNCHANGED <<timers_enabled, tm_clock, tm_frame>>

create_transaction(branch_id, method, is_reliable) ==
    /\ tm_clock <= MaxCreateClock
    /\ IF branch_id \in DOMAIN tm_transactions
         THEN /\ tm_last' = TmResult("create_transaction", branch_id,
                                     "StateError", {})
              /\ UNCHANGED tm_transactions
         ELSE /\ tm_transactions' =
                    MapInsert(tm_transactions, branch_id,
                              EnhancedTransaction_new(method, is_reliable,
                                                      tm_clock))
              /\ tm_last' = TmResult("create_transaction", branch_id, "Ok", {})
    /\ UNCHANGED <<timers_enabled, tm_clock, tm_frame>>

\* process_timers without the pruning of Terminated transactions.
process_timers_NoPrune ==
    /\ IF ~timers_enabled
         THEN /\ tm_last' = TmResult("process_timers", "", "Ok", {})
              /\ UNCHANGED tm_transactions
         ELSE LET processed ==
                    [b \in DOMAIN tm_transactions |->
                        ProcessTimerExpiry(tm_transactions[b], tm_clock)]
                  all_events ==
                    {<<b, processed[b].events>> :
                        b \in {x \in DOMAIN tm_transactions :
                                    processed[x].events # <<>>}}
                  retained == DOMAIN tm_transactions
              IN /\ tm_transactions' = [b \in retained |-> processed[b].tx]
                 /\ tm_last' = TmResult("process_timers", "", "Ok", all_events)
    /\ UNCHANGED <<timers_enabled, tm_clock, tm_frame>>

process_timers ==
    /\ IF ~timers_enabled
         THEN /\ tm_last' = TmResult("process_timers", "", "Ok", {})
              /\ UNCHANGED tm_transactions
         ELSE LET processed ==
                    [b \in DOMAIN tm_transactions |->
                        ProcessTimerExpiry(tm_transactions[b], tm_clock)]
                  all_events ==
                    {<<b, processed[b].events>> :
                        b \in {x \in DOMAIN tm_transactions :
                                    processed[x].events # <<>>}}
                  retained ==
                    {b \in DOMAIN tm_transactions :
                        processed[b].tx.state # "Terminated"}
              IN /\ tm_transactions' = [b \in retained |-> processed[b].tx]
                 /\ tm_last' = TmResult("process_timers", "", "Ok", all_events)
    /\ UNCHANGED <<timers_enabled, tm_clock, tm_frame>>

\* Time passes on the transaction manager's clock, by T2 or by the whole
\* of Timer B at once.
TmTick ==
    \E d \in {as_secs(T2), as_secs(timer_b)} :
        /\ tm_clock + d <= TmHorizon
        /\ tm_clock' = tm_clock + d
        /\ UNCHANGED <<tm_transactions, timers_enabled, tm_last, tm_frame>>

----------------------------------------------------------------------------
(* SipMessagePool and PooledSipMessage, src/src/pool.rs.  Threads share the *)
(* pool through Arc<Mutex<..>>: get() and a handle's drop each take the     *)
(* lock, act on the VecDeque and release the lock on return.                *)

MaxInitialSize == 3     \* PoolConfig.initial_size ranges up to this
MaxMaxSize == 2         \* PoolConfig.max_size ranges up to this
MaxHandles == 2         \* a thread holds no more handles than this
UnlimitedMaxSize == 1000    \* max_size of a pool configured with 0

Threads == {"t1", "t2"}

PoolConfig ==
    [initial_size : 0..MaxInitialSize, max_size : 0..MaxMaxSize,
     pre_allocate : BOOLEAN]

\* SipMessage::new_pooled(): an empty shell.
new_pooled == [raw_message |-> ""]

\* SipMessagePool::new(config)
SipMessagePool_new(config) ==
    /\ pool = IF config.pre_allocate
                THEN [i \in 1..config.initial_size |-> new_pooled]
                ELSE <<>>
    /\ pool_max_size = IF config.max_size = 0 THEN UnlimitedMaxSize
                       ELSE config.max_size
    /\ pool_lock = None
    /\ pool_pc = [t \in Threads |-> "idle"]
    /\ handles = [t \in Threads |-> 0]

\* self.pool.lock() in get()
get_lock(t) ==
    /\ pool_pc[t] = "idle" /\ pool_lock = None
    /\ handles[t] < MaxHandles
    /\ pool_lock' = Some(t)
    /\ pool_pc' = [pool_pc EXCEPT ![t] = "get"]
    /\ UNCHANGED <<pool, pool_max_size, handles, pool_frame>>

\* The rest of get(): a shell from the front of the pool, reset, or a new
\* one; the guard is released on return.
get(t) ==
    /\ pool_pc[t] = "get"
    /\ pool' = IF pool # <<>> THEN Tail(pool) ELSE pool
    /\ handles' = [handles EXCEPT ![t] = @ + 1]
    /\ pool_lock' = None
    /\ pool_pc' = [pool_pc EXCEPT ![t] = "idle"]
    /\ UNCHANGED <<pool_max_size, pool_frame>>

\* Drop for PooledSipMessage: message.take() and self.pool.lock()
drop_lock(t) ==
    /\ pool_pc[t] = "idle" /\ pool_lock = None
    /\ handles[t] > 0
    /\ handles' = [handles EXCEPT ![t] = @ - 1]
    /\ pool_lock' = Some(t)
    /\ pool_pc' = [pool_pc EXCEPT ![t] = "drop"]
    /\ UNCHANGED <<pool, pool_max_size, pool_frame>>

\* The rest of drop: the shell goes back unless the pool is at capacity.
drop(t) ==
    /\ pool_pc[t] = "drop"
    /\ pool' = IF Len(pool) < pool_max_size THEN Append(pool, new_pooled)
               ELSE pool
    /\ pool_lock' = None
    /\ pool_pc' = [pool_pc EXCEPT ![t] = "idle"]
    /\ UNCHANGED <<pool_max_size, handles, pool_frame>>

\* into_inner(): the handle is consumed and its shell never returns.
into_inner(t) ==
    /\ pool_pc[t] = "idle"
    /\ handles[t] > 0
    /\ handles' = [handles EXCEPT ![t] = @ - 1]
    /\ UNCHANGED <<pool, pool_max_size, pool_lock, pool_pc, pool_frame>>

----------------------------------------------------------------------------
(* Message text.  A buffer is a sequence of atoms: CR, LF, SP, HT and the  *)
(* colon are atoms of their own, every other atom is a run of bytes that   *)
(* holds none of them (a header name, a word of a value).  Offsets count   *)
(* atoms from 0 as the code counts bytes from 0; CR LF is two atoms, so    *)
(* the 2 and 4 the code adds past a line end and a blank line are exact.   *)

CR == "\r"
LF == "\n"
SP == " "
HT == "\t"
COLON == ":"
CRLF == <<CR, LF>>

\* &s[a..b]
Slice(s, a, b) == SubSeq(s, a + 1, b)

\* s[at..].starts_with(pat)
StartsWithAt(s, pat, at) ==
    /\ at + Len(pat) <= Len(s)
    /\ SubSeq(s, at + 1, at + Len(pat)) = pat

\* str::find(pat): the offset of the first occurrence, if any.
Find(s, pat) ==
    LET hits == {i \in 0..(Len(s) - Len(pat)) : StartsWithAt(s, pat, i)}
    IN IF hits = {} THEN None
       ELSE Some(CHOOSE i \in hits : \A j \in hits : i <= j)

Contains(s, pat) == IsSome(Find(s, pat))

\* str::replace(pat, with)
RECURSIVE Replace(_, _, _)
Replace(s, pat, with) ==
    IF s = <<>> THEN <<>>
    ELSE IF StartsWithAt(s, pat, 0)
           THEN with \o Replace(Slice(s, Len(pat), Len(s)), pat, with)
           ELSE <<Head(s)>> \o Replace(Tail(s), pat, with)

\* str::trim(): white space goes from both ends, line ends included.
Trim(s) ==
    LET kept == {i \in DOMAIN s : s[i] \notin {SP, HT, CR, LF}}
    IN IF kept = {} THEN <<>>
       ELSE SubSeq(s, CHOOSE i \in kept : \A j \in kept : i <= j,
                   CHOOSE i \in kept : \A j \in kept : i >= j)

\* The strings of a sequence one after another.
RECURSIVE Join(_)
Join(strings) ==
    Bind(strings, LAMBDA ss :
        IF ss = <<>> THEN <<>> ELSE Head(ss) \o Join(Tail(ss)))

\* str::lines(): the text is cut at every LF, with the CR before it; what
\* follows the last LF is a line if it is not empty.
RECURSIVE Lines(_)
Lines(text) ==
    Bind(text, LAMBDA s :
        IF s = <<>> THEN <<>>
        ELSE LET lf == Find(s, <<LF>>)
             IN IF lf = None THEN <<s>>
                ELSE LET end == Unwrap(lf)
                         line == IF end > 0 /\ s[end] = CR
                                   THEN Slice(s, 0, end - 1)
                                   ELSE Slice(s, 0, end)
                     IN <<line>> \o Lines(Slice(s, end + 1, Len(s))))

\* to_lowercase() of one atom: the header names the messages here carry in
\* capitals; every other atom is in lower case already or has no letters.
to_lowercase(a) ==
    CASE a \in {"Via", "VIA"} -> "via"
      [] a = "To" -> "to"
      [] a = "From" -> "from"
      [] a \in {"Call-ID", "CALL-ID"} -> "call-id"
      [] a = "CSeq" -> "cseq"
      [] a = "Max-Forwards" -> "max-forwards"
      [] a \in {"Contact", "CONTACT"} -> "contact"
      [] a \in {"Record-Route", "RECORD-ROUTE"} -> "record-route"
      [] a = "X-Info" -> "x-info"
      [] a = "X-B2BUA" -> "x-b2bua"
      [] OTHER -> a

\* A string of one atom lower-cased; a longer string has no capitals here.
Lowercase(s) == [i \in DOMAIN s |-> to_lowercase(s[i])]

eq_ignore_ascii_case(s, t) == Lowercase(s) = Lowercase(t)

----------------------------------------------------------------------------
(* SipMessage, src/src/main_impl.rs.  A TextRange is <<start, end>>; a      *)
(* stored header is the HeaderValue::Raw range of its value.  Lengths are   *)
(* counted in atoms, as offsets are, and so are the ParserLimits a message  *)
(* is given.                                                                *)

MAX_MESSAGE_SIZE == 67108864

TextRange(start, end) == <<start % U16, end % U16>>

\* TextRange::len()
RangeLen(range) == (range[2] - range[1]) % U16

\* ParserLimits::default()
ParserLimits_default ==
    [max_message_size |-> MAX_MESSAGE_SIZE,
     max_header_line_length |-> 8192,
     max_headers |-> 256,
     max_header_name_length |-> 128,
     max_header_value_length |-> 8192,
     max_uri_depth |-> 10,
     max_uri_length |-> 2048,
     max_header_params |-> 32,
     max_start_line_length |-> 8192,
     max_body_size |-> 16777216]

\* SipMessage::with_limits(message, limits)
with_limits(message, limits) ==
    [raw_message |-> message,
     is_request |-> FALSE,
     headers_parsed |-> FALSE,
     contact_has_multiple_entries |-> FALSE,
     limits |-> limits,
     start_line |-> TextRange(0, 0),
     body |-> None,
     to |-> None, from |-> None, cseq |-> None, call_id |-> None,
     max_forwards |-> None,
     subscription_state |-> None, refer_to |-> None,
     contact_headers |-> <<>>,
     via_headers |-> <<>>,
     headers |-> <<>>]

\* SipMessage::new(message)
SipMessage_new(message) == with_limits(message, ParserLimits_default)

\* What a step of the parser hands back: the message as it stands and Ok
\* or the message of the ParseError.
Parsed(m, result) == [msg |-> m, result |-> result]

expand_compact_header(name) ==
    CASE name = "v" -> "via"
      [] name = "i" -> "call-id"
      [] name = "m" -> "max-forwards"
      [] name = "e" -> "content-encoding"
      [] name = "l" -> "content-length"
      [] name = "c" -> "content-type"
      [] name = "f" -> "from"
      [] name = "t" -> "to"
      [] name = "r" -> "refer-to"
      [] name = "b" -> "referred-by"
      [] name = "k" -> "supported"
      [] name = "o" -> "event"
      [] name = "u" -> "allow-events"
      [] name = "a" -> "accept-contact"
      [] name = "j" -> "reject-contact"
      [] name = "d" -> "request-disposition"
      [] name = "x" -> "session-expires"
      [] name = "y" -> "identity"
      [] name = "n" -> "identity-info"
      [] name = "h" -> "date"
      [] name = "s" -> "subject"
      [] OTHER -> name

\* validation::validate_header_name: no control character, separator or
\* blank in the name; among the atoms those are CR, LF, SP, HT and the colon.
validate_header_name(raw_name) ==
    \A i \in DOMAIN raw_name : raw_name[i] \notin {CR, LF, SP, HT, COLON}

\* validation::sanitize_header_value: a CR or LF in the value is an error.
sanitize_header_value(value_str) ==
    ~(Contains(value_str, <<LF>>) \/ Contains(value_str, <<CR>>))

\* The slot of a header that may occur once, by its normalized name.
SingleSlot(normalized_name) ==
    CASE normalized_name = "to" -> "To"
      [] normalized_name = "from" -> "From"
      [] normalized_name = "call-id" -> "Call-ID"
      [] normalized_name = "cseq" -> "CSeq"
      [] normalized_name = "max-forwards" -> "Max-Forwards"
      [] OTHER -> ""

SlotOf(m, header_name) ==
    CASE header_name = "To" -> m.to
      [] header_name = "From" -> m.from
      [] header_name = "Call-ID" -> m.call_id
      [] header_name = "CSeq" -> m.cseq
      [] header_name = "Max-Forwards" -> m.max_forwards

SetSlot(m, header_name, value_range) ==
    CASE header_name = "To" -> [m EXCEPT !.to = Some(value_range)]
      [] header_name = "From" -> [m EXCEPT !.from = Some(value_range)]
      [] header_name = "Call-ID" -> [m EXCEPT !.call_id = Some(value_range)]
      [] header_name = "CSeq" -> [m EXCEPT !.cseq = Some(value_range)]
      [] header_name = "Max-Forwards" ->
            [m EXCEPT !.max_forwards = Some(value_range)]

check_duplicate_and_set_Overwrite(m, header_name, value_range) ==
    Parsed(SetSlot(m, header_name, value_range), "Ok")

\* check_duplicate_and_set!, src/src/parsing.rs
check_duplicate_and_set(m, header_name, value_range) ==
    IF IsSome(SlotOf(m, header_name))
      THEN Parsed(m, "Duplicate " \o header_name \o " header")
      ELSE Parsed(SetSlot(m, header_name, value_range), "Ok")

\* The offset past the blanks that follow the colon.
RECURSIVE SkipBlanks(_, _, _)
SkipBlanks(raw, value_start, range_end) ==
    IF value_start < range_end /\ raw[value_start + 1] \in {SP, HT}
      THEN SkipBlanks(raw, value_start + 1, range_end)
      ELSE value_start

\* process_header_line(range): one header line, folded or not.
process_header_line(m, range) ==
    LET raw == m.raw_message
        line == Slice(raw, range[1], range[2])
        unfolded_line ==
            IF Contains(line, CRLF)
              THEN Replace(Replace(line, <<CR, LF, SP>>, <<SP>>),
                           <<CR, LF, HT>>, <<SP>>)
              ELSE line
        colon == Find(unfolded_line, <<COLON>>)
    IN IF RangeLen(range) > m.limits.max_header_line_length
         THEN Parsed(m, "Header line length exceeds maximum")
       ELSE IF colon = None THEN Parsed(m, "No colon in header line")
       ELSE
        LET colon_pos == Unwrap(colon)
            raw_name == Slice(unfolded_line, 0, colon_pos)
            lowercase_name == Lowercase(raw_name)
            normalized_name ==
                IF Len(lowercase_name) = 1
                  THEN expand_compact_header(lowercase_name[1]) ELSE ""
            original_colon_pos == Unwrap(Find(line, <<COLON>>))
            value_str ==
                Trim(Slice(unfolded_line, colon_pos + 1, Len(unfolded_line)))
            value_range ==
                TextRange(SkipBlanks(raw, range[1] + original_colon_pos + 1,
                                     range[2]),
                          range[2])
            name_range == TextRange(range[1], range[1] + original_colon_pos)
            general == [m EXCEPT !.headers =
                            Append(@, <<name_range, value_range>>)]
        IN IF ~validate_header_name(raw_name)
             THEN Parsed(m, "Invalid character in header name")
           ELSE IF ~sanitize_header_value(value_str)
             THEN Parsed(m, "Header injection attempt detected")
           ELSE
            CASE normalized_name = "via" ->
                    Parsed([general EXCEPT !.via_headers =
                                Append(@, value_range)], "Ok")
              [] SingleSlot(normalized_name) # "" ->
                    check_duplicate_and_set(m, SingleSlot(normalized_name),
                                            value_range)
              [] normalized_name = "subscription-state" ->
                    Parsed([m EXCEPT !.subscription_state =
                                Some(value_range)], "Ok")
              [] normalized_name = "refer-to" ->
                    Parsed([m EXCEPT !.refer_to = Some(value_range)], "Ok")
              [] normalized_name = "contact" ->
                    Parsed([general EXCEPT
                              !.contact_headers = Append(@, value_range),
                              !.contact_has_multiple_entries =
                                    @ \/ Contains(Slice(raw, value_range[1],
                                                        value_range[2]),
                                                  <<",">>)],
                           "Ok")
              [] OTHER -> Parsed(general, "Ok")

\* The loop of parse_with_validation over the header lines.
RECURSIVE HeaderLoop(_, _, _, _, _, _)
HeaderLoop(m, pos, current_header_start, header_count, body_start, headers_end) ==
    IF ~(pos < headers_end) THEN Parsed(m, "Ok")
    ELSE
      LET raw == m.raw_message
          next == Find(Slice(raw, pos, Len(raw)), CRLF)
          next_line_offset == IF next = None THEN 0 ELSE Unwrap(next)
          next_line_start == pos + next_line_offset + 2
      IN IF /\ next_line_start < body_start
            /\ next_line_start < Len(raw)
            /\ raw[next_line_start + 1] \in {SP, HT}
           THEN HeaderLoop(m, next_line_start, current_header_start,
                           header_count, body_start, headers_end)
           ELSE
            LET line_end == IF next = None THEN headers_end
                            ELSE pos + Unwrap(next)
            IN IF header_count + 1 > m.limits.max_headers
                 THEN Parsed(m, "Too many headers")
               ELSE
                Bind(process_header_line(
                        m, TextRange(current_header_start, line_end)),
                     LAMBDA r :
                        IF r.result # "Ok" THEN r
                        ELSE HeaderLoop(r.msg, line_end + 2, line_end + 2,
                                        header_count + 1, body_start,
                                        headers_end))

\* validate_required_headers, for a request.
validate_required_headers(m) ==
    IF m.via_headers = <<>> THEN "Missing required Via header"
    ELSE IF m.to = None THEN "Missing required To header"
    ELSE IF m.from = None THEN "Missing required From header"
    ELSE IF m.cseq = None THEN "Missing required CSeq header"
    ELSE IF m.call_id = None THEN "Missing required Call-ID header"
    ELSE IF m.max_forwards = None THEN "Missing required Max-Forwards header"
    ELSE "Ok"

parse_with_validation(m, validate) ==
    IF m.headers_parsed THEN Parsed(m, "Ok")
    ELSE
      LET raw == m.raw_message
          message_len == Len(raw)
          start == Find(raw, CRLF)
      IN IF start = None THEN Parsed(m, "No CRLF after start line")
         ELSE
          LET start_line_end == Unwrap(start)
              first == [m EXCEPT
                          !.start_line = TextRange(0, start_line_end),
                          !.is_request =
                                \* starts_with("SIP/"): of the first atoms
                                \* here only the version has it
                                ~(raw # <<>> /\ raw[1] = "SIP/2.0")]
              blank == Find(Slice(raw, start_line_end + 2, message_len),
                            CRLF \o CRLF)
              body_start == IF blank = None THEN message_len
                            ELSE start_line_end + 2 + Unwrap(blank) + 4
          IN IF RangeLen(first.start_line) > m.limits.max_start_line_length
               THEN Parsed([m EXCEPT !.start_line = first.start_line],
                           "Start line length exceeds maximum")
             ELSE
             Bind(HeaderLoop(first, start_line_end + 2, start_line_end + 2,
                             0, body_start, body_start - 2),
                  LAMBDA r :
                    LET body_range == TextRange(body_start, message_len)
                        with_body ==
                            IF body_start < message_len
                              THEN [r.msg EXCEPT !.body = Some(body_range)]
                              ELSE r.msg
                        required ==
                            IF validate /\ with_body.is_request
                              THEN validate_required_headers(with_body)
                              ELSE "Ok"
                    IN IF r.result # "Ok" THEN r
                       ELSE IF /\ body_start < message_len
                               /\ RangeLen(body_range)
                                    > m.limits.max_body_size
                         THEN Parsed(r.msg, "Body size exceeds maximum")
                       ELSE IF required # "Ok" THEN Parsed(with_body, required)
                       ELSE Parsed([with_body EXCEPT !.headers_parsed = TRUE],
                                   "Ok"))

MaxParses == 2      \* a message is parsed no more often than this

\* What the last call on the message was, what it was given and returned,
\* whether the message was as SipMessage::new left it when called, and how
\* many times the message has been parsed.
MsgResult(op, arg, result, fresh, parses) ==
    [op |-> op, arg |-> arg, result |-> result, fresh |-> fresh,
     parses |-> parses]

\* parse(): the size check, then parse_with_validation(true).
parse ==
    \E r \in {IF Len(msg.raw_message) > msg.limits.max_message_size
                THEN Parsed(msg, "Message size exceeds maximum")
                ELSE parse_with_validation(msg, TRUE)} :
       /\ modifier = None
       /\ msg_last.parses < MaxParses
       /\ msg' = r.msg
       /\ msg_last' = MsgResult("parse", <<>>, r.result,
                                msg = with_limits(msg.raw_message, msg.limits),
                                msg_last.parses + 1)
       /\ UNCHANGED <<modifier, output, msg_frame>>

parse_without_validation ==
    \E r \in {parse_with_validation(msg, FALSE)} :
       /\ modifier = None
       /\ msg_last.parses < MaxParses
       /\ msg' = r.msg
       /\ msg_last' = MsgResult("parse_without_validation", <<>>, r.result,
                                msg = with_limits(msg.raw_message, msg.limits),
                                msg_last.parses + 1)
       /\ UNCHANGED <<modifier, output, msg_frame>>

----------------------------------------------------------------------------
(* ZeroCopyModifier, src/src/modification.rs (mod zero_copy).  A header    *)
(* name is one atom, a header value a string of atoms.                     *)

MaxEdits == 2       \* a modifier takes no more edits than this

\* ZeroCopyModifier::new(message)
ZeroCopyModifier_new(message) ==
    [original |-> message,
     modified_headers |-> EmptyMap,
     stripped_headers |-> <<>>,
     new_headers |-> <<>>,
     modified_request_line |-> None,
     modified_status_line |-> None]

StripViaHeaders(mod) ==
    [mod EXCEPT !.stripped_headers = Append(@, "Via")]

StripRecordRouteHeaders(mod) ==
    [mod EXCEPT !.stripped_headers = Append(@, "Record-Route")]

\* The edits that can fail hand back the modifier and Ok or the error.
Edited(mod, result) == [modifier |-> mod, result |-> result]

ReplaceCallId(mod, new_call_id) ==
    IF new_call_id = <<>> THEN Edited(mod, "Call-ID cannot be empty")
    ELSE Edited([mod EXCEPT !.modified_headers =
                    MapInsert(@, "Call-ID", Some(new_call_id))], "Ok")

SetContact(mod, contact) ==
    IF contact = <<>> THEN Edited(mod, "Contact cannot be empty")
    ELSE Edited([mod EXCEPT !.modified_headers =
                    MapInsert(@, "Contact", Some(contact))], "Ok")

DecrementMaxForwards(mod) ==
    Edited([mod EXCEPT !.modified_headers =
                MapInsert(@, "Max-Forwards", Some(<<"69">>))], "Ok")

AddHeader(mod, name, value) ==
    [mod EXCEPT !.new_headers = Append(@, <<name, value>>)]

AddVia(mod, via) ==
    [mod EXCEPT !.new_headers = Append(@, <<"Via", via>>)]

\* str::split(' ')
RECURSIVE Split(_, _)
Split(text, sep) ==
    Bind(text, LAMBDA s :
        LET at == Find(s, <<sep>>)
        IN IF at = None THEN <<s>>
           ELSE <<Slice(s, 0, Unwrap(at))>>
                    \o Split(Slice(s, Unwrap(at) + 1, Len(s)), sep))

\* parse_request_line(): the parts of a request's first line, None for a
\* response, or the error.
parse_request_line(mod) ==
    IF ~mod.original.is_request THEN [parts |-> None, result |-> "Ok"]
    ELSE IF Lines(mod.original.raw_message) = <<>>
      THEN [parts |-> None, result |-> "Empty message"]
    ELSE LET parts == Split(Lines(mod.original.raw_message)[1], SP)
         IN IF Len(parts) >= 3
              THEN [parts |-> Some(<<parts[1], parts[2], parts[3]>>),
                    result |-> "Ok"]
              ELSE [parts |-> None, result |-> "Invalid request line"]

SetRequestUri(mod, uri) ==
    Bind(parse_request_line(mod), LAMBDA r :
        IF r.result # "Ok" THEN Edited(mod, r.result)
        ELSE IF r.parts = None THEN Edited(mod, "Not a request message")
        ELSE Edited([mod EXCEPT !.modified_request_line =
                        Some(Unwrap(r.parts)[1] \o <<SP>> \o uri \o <<SP>>
                                \o Unwrap(r.parts)[3])],
                    "Ok"))

\* name: value CR LF, as build() writes a header of its own.
Written(name, value) == name \o <<COLON, SP>> \o value \o CRLF

\* The name build() reads off a line that has a colon.
LineName(line) == Trim(Slice(line, 0, Unwrap(Find(line, <<COLON>>))))

\* What build() writes for one line of the original headers.
BuildLine(mod, line) ==
    IF line = <<>> THEN <<>>
    ELSE IF Find(line, <<COLON>>) = None THEN line \o CRLF
    ELSE
      LET header_name == LineName(line)
          keys == {k \in DOMAIN mod.modified_headers :
                        eq_ignore_ascii_case(<<k>>, header_name)}
      IN IF \E i \in DOMAIN mod.stripped_headers :
                eq_ignore_ascii_case(<<mod.stripped_headers[i]>>,
                                     header_name)
           THEN <<>>
         ELSE IF keys # {}
           \* the keys the edits insert differ in more than case, so at
           \* most one matches
           THEN LET new_value ==
                        mod.modified_headers[CHOOSE k \in keys : TRUE]
                IN IF IsSome(new_value)
                     THEN Written(header_name, Unwrap(new_value))
                     ELSE <<>>
         ELSE line \o CRLF

\* build(): the buffers it can return, one for each order in which the
\* HashMap yields the modified headers the original does not carry.
Build(mod) ==
    LET raw == mod.original.raw_message
        first == Find(raw, CRLF)
        first_line_end == IF first = None THEN Len(raw) ELSE Unwrap(first)
        start_line ==
            IF IsSome(mod.modified_request_line)
              THEN Unwrap(mod.modified_request_line)
            ELSE IF IsSome(mod.modified_status_line)
              THEN Unwrap(mod.modified_status_line)
            ELSE Slice(raw, 0, first_line_end)
        headers_start == IF first = None THEN 0 ELSE Unwrap(first) + 2
        separator == Find(Slice(raw, headers_start, Len(raw)), CRLF \o CRLF)
        headers_end == IF separator = None THEN Len(raw)
                       ELSE headers_start + Unwrap(separator)
        lines == IF headers_start < headers_end
                   THEN Lines(Slice(raw, headers_start, headers_end))
                   ELSE <<>>
        new_via == SelectSeq(mod.new_headers, LAMBDA h : h[1] = "Via")
        new_other == SelectSeq(mod.new_headers, LAMBDA h : h[1] # "Via")
        exists_in_original(name) ==
            \E i \in DOMAIN lines :
                /\ Find(lines[i], <<COLON>>) # None
                /\ eq_ignore_ascii_case(LineName(lines[i]), <<name>>)
        absent == {name \in DOMAIN mod.modified_headers :
                        /\ ~exists_in_original(name)
                        /\ IsSome(mod.modified_headers[name])}
        head == start_line \o CRLF
                  \o Join([i \in DOMAIN new_via |->
                            Written(<<new_via[i][1]>>, new_via[i][2])])
                  \o Join([i \in DOMAIN lines |-> BuildLine(mod, lines[i])])
                  \o Join([i \in DOMAIN new_other |->
                            Written(<<new_other[i][1]>>, new_other[i][2])])
        body == IF headers_end < Len(raw)
                  THEN Slice(raw, headers_end + 4, Len(raw))
                  ELSE <<>>
    IN { head
           \o Join([i \in DOMAIN order |->
                      Written(<<order[i]>>,
                              Unwrap(mod.modified_headers[order[i]]))])
           \o CRLF \o body :
         order \in IterationOrders(absent) }

\* u16 to decimal text, for the ports used here.
PortText(port) ==
    CASE port = 5060 -> "5060"
      [] port = 5080 -> "5080"

\* create_b2bua_request: the edits made before build(), or the first error.
B2buaEdits(message, new_call_id, contact, branch, host, port) ==
    LET via == <<"SIP/2.0/UDP", SP, host, COLON, PortText(port),
                 ";branch=", branch>>
        stripped == StripRecordRouteHeaders(
                        AddVia(StripViaHeaders(ZeroCopyModifier_new(message)),
                               via))
        with_call_id == ReplaceCallId(stripped, new_call_id)
        with_contact == SetContact(with_call_id.modifier, contact)
    IN IF with_call_id.result # "Ok" THEN with_call_id
       ELSE IF with_contact.result # "Ok" THEN with_contact
       ELSE DecrementMaxForwards(with_contact.modifier)

\* The edits a modifier has taken, for the bound on them.
EditCount(mod) ==
    Len(mod.stripped_headers) + Len(mod.new_headers)
        + Cardinality(DOMAIN mod.modified_headers)
        + Len(mod.modified_request_line)

\* A call on the modifier or on the parsed message.
ModResult(op, arg, result) ==
    MsgResult(op, arg, result, FALSE, msg_last.parses)

into_zero_copy_modifier ==
    /\ modifier = None /\ output = None
    /\ modifier' = Some(ZeroCopyModifier_new(msg))
    /\ msg_last' = ModResult("into_zero_copy_modifier", <<>>, "Ok")
    /\ UNCHANGED <<msg, output, msg_frame>>

\* An edit: edited is the modifier it leaves and its result.
Edit(op, arg, edited) ==
    /\ modifier # None /\ EditCount(Unwrap(modifier)) < MaxEdits
    /\ modifier' = Some(edited.modifier)
    /\ msg_last' = ModResult(op, arg, edited.result)
    /\ UNCHANGED <<msg, output, msg_frame>>

strip_via_headers ==
    /\ modifier # None
    /\ Edit("strip_via_headers", <<>>,
            Edited(StripViaHeaders(Unwrap(modifier)), "Ok"))

strip_record_route_headers ==
    /\ modifier # None
    /\ Edit("strip_record_route_headers", <<>>,
            Edited(StripRecordRouteHeaders(Unwrap(modifier)), "Ok"))

replace_call_id(new_call_id) ==
    /\ modifier # None
    /\ Edit("replace_call_id", new_call_id,
            ReplaceCallId(Unwrap(modifier), new_call_id))

set_contact(contact) ==
    /\ modifier # None
    /\ Edit("set_contact", contact, SetContact(Unwrap(modifier), contact))

decrement_max_forwards ==
    /\ modifier # None
    /\ Edit("decrement_max_forwards", <<>>,
            DecrementMaxForwards(Unwrap(modifier)))

add_header(name, value) ==
    /\ modifier # None
    /\ Edit("add_header", <<name, value>>,
            Edited(AddHeader(Unwrap(modifier), name, value), "Ok"))

add_via(via) ==
    /\ modifier # None
    /\ Edit("add_via", via, Edited(AddVia(Unwrap(modifier), via), "Ok"))

set_request_uri(uri) ==
    /\ modifier # None
    /\ Edit("set_request_uri", uri, SetRequestUri(Unwrap(modifier), uri))

\* build(self): the modifier is consumed; the call is recorded with the
\* modifier it was made on.
build ==
    /\ modifier # None
    /\ \E bytes \in Build(Unwrap(modifier)) : output' = Some(bytes)
    /\ modifier' = None
    /\ msg_last' = ModResult("build", Unwrap(modifier), "Ok")
    /\ UNCHANGED <<msg, msg_frame>>

create_b2bua_request(new_call_id, contact, branch, host, port) ==
    /\ modifier = None /\ output = None
    /\ \E edited \in {B2buaEdits(msg, new_call_id, contact, branch,
                                 host, port)} :
         /\ IF edited.result = "Ok"
              THEN \E bytes \in Build(edited.modifier) :
                        output' = Some(bytes)
              ELSE output' = output
         /\ msg_last' = ModResult("create_b2bua_request",
                                  <<new_call_id, contact, branch, host,
                                    port>>,
                                  edited.result)
    /\ UNCHANGED <<msg, modifier, msg_frame>>

----------------------------------------------------------------------------
(* SessionDescription (src/src/sdp.rs).  An SDP text is a sequence of atoms *)
(* as a SIP message is; the letter and the "=" that open a line are one    *)
(* atom, so that line.split_at(2) cuts after the first atom.               *)

Ok(value) == [result |-> "Ok", value |-> value]
Err(reason) == [result |-> reason]

\* str::split_whitespace(): the runs of atoms between white space.
RECURSIVE split_whitespace(_)
split_whitespace(value) ==
    Bind(value, LAMBDA s :
        LET white == {i \in DOMAIN s : s[i] \in {SP, HT, CR, LF}}
            end == IF white = {} THEN Len(s) + 1
                   ELSE CHOOSE i \in white : \A j \in white : i <= j
        IN IF s = <<>> THEN <<>>
           ELSE IF end = 1 THEN split_whitespace(Tail(s))
           ELSE <<SubSeq(s, 1, end - 1)>>
                    \o split_whitespace(SubSeq(s, end, Len(s))))

parse_origin(value) ==
    LET parts == split_whitespace(value)
    IN IF Len(parts) < 6 THEN Err("Invalid origin line")
       ELSE Ok([username |-> parts[1], session_id |-> parts[2],
                session_version |-> parts[3], unicast_address |-> parts[6]])

parse_connection(value) ==
    LET parts == split_whitespace(value)
    IN IF Len(parts) < 3 THEN Err("Invalid connection line")
       ELSE Ok([connection_address |-> parts[3]])

\* str::parse::<u16>() of the port texts the SDP bodies here carry: 70000
\* is beyond a u16, and a word is no number.
ParseU16(text) ==
    CASE text = <<"5004">> -> Some(5004)
      [] text = <<"9000">> -> Some(9000)
      [] OTHER -> None

parse_media_description(value) ==
    LET parts == split_whitespace(value)
    IN IF Len(parts) < 4 THEN Err("Invalid media line")
       ELSE IF ParseU16(parts[2]) = None
              THEN Err("Invalid port in media line")
       ELSE Ok([media_type |-> parts[1], port |-> Unwrap(ParseU16(parts[2])),
                protocol |-> parts[3],
                formats |-> SubSeq(parts, 4, Len(parts)),
                connection |-> None])

\* The loop of SessionDescription::parse over lines[i..], i counted from 0.
RECURSIVE ParseSdpLines(_, _, _)
ParseSdpLines(lines, i, so_far) ==
    Bind(so_far, LAMBDA sd :
        IF i >= Len(lines) THEN Ok(sd)
        ELSE LET line == lines[i + 1]
                 field == Head(line)
                 value == Trim(Tail(line))
                 origin == parse_origin(value)
                 connection == parse_connection(value)
                 media == parse_media_description(value)
             IN IF line = <<>> \/ Head(line) \notin
                        {"v=", "o=", "s=", "c=", "t=", "m=", "a="}
                  THEN ParseSdpLines(lines, i + 1, sd)
                ELSE IF field = "o="
                  THEN IF origin.result # "Ok" THEN origin
                       ELSE ParseSdpLines(lines, i + 1,
                                [sd EXCEPT !.origin = origin.value])
                ELSE IF field = "s="
                  THEN ParseSdpLines(lines, i + 1,
                                [sd EXCEPT !.session_name = value])
                ELSE IF field = "c="
                  THEN IF connection.result # "Ok" THEN connection
                       ELSE ParseSdpLines(lines, i + 1,
                                [sd EXCEPT
                                    !.connection = Some(connection.value)])
                ELSE IF field = "m="
                  THEN IF media.result # "Ok" THEN media
                       ELSE ParseSdpLines(lines, i + 1,
                                [sd EXCEPT !.media_descriptions =
                                    Append(@, media.value)])
                ELSE ParseSdpLines(lines, i + 1, sd))

\* SessionDescription::parse(sdp): Ok(session) or the error.
SessionDescription_parse ==
    /\ sdp_text # None
    /\ session = None
    /\ session' = Some(ParseSdpLines(Lines(Unwrap(sdp_text)), 0,
            [origin |-> [username |-> <<"-">>, session_id |-> <<"0">>,
                         session_version |-> <<"0">>,
                         unicast_address |-> <<"127.0.0.1">>],
             session_name |-> <<"SSBC">>,
             connection |-> None,
             media_descriptions |-> <<>>]))
    /\ UNCHANGED <<sdp_text, sdp_frame>>

----------------------------------------------------------------------------
(* TextRange over buffers of any size a message may have (src/src/types.rs) *)

\* TextRange::from_usize(start, end) for the offsets of the field.
from_usize ==
    /\ text_field # None
    /\ text_range = None
    /\ text_range' = Some(TextRange(Unwrap(text_field).start,
                                    Unwrap(text_field).end))
    /\ UNCHANGED <<text_field, range_frame>>

----------------------------------------------------------------------------
MgrInit ==
    /\ calls = EmptyMap
    /\ call_pairs = EmptyMap
    /\ transactions = EmptyMap
    /\ now = 0
    /\ last = Result("new", "", 0, "Ok", None)
    /\ scenario = 0

TxIdle ==
    /\ tx = None
    /\ tx_clock = 0
    /\ tx_last = None

TmIdle ==
    /\ tm_transactions = EmptyMap
    /\ timers_enabled = FALSE
    /\ tm_clock = 0
    /\ tm_last = None

PoolIdle ==
    /\ pool = <<>>
    /\ pool_max_size = 0
    /\ pool_lock = None
    /\ pool_pc = None
    /\ handles = None

MsgIdle ==
    /\ msg = None
    /\ modifier = None
    /\ output = None
    /\ msg_last = None

SdpIdle ==
    /\ sdp_text = None
    /\ session = None

RangeIdle ==
    /\ text_field = None
    /\ text_range = None

Init == MgrInit /\ TxIdle /\ TmIdle /\ PoolIdle /\ MsgIdle /\ SdpIdle
        /\ RangeIdle

\* The manager's operations, with arguments drawn from the sets given: the
\* call-ids of INVITEs, pairing and termination (ids), those generated (gen),
\* those of the dialog operations (dialog_ids) and of the relay set-up
\* (relay_ids), the SDP bodies, status codes, To tags and RTP ports.
MgrCall(ids, gen, dialog_ids, relay_ids, sdps, codes, tags, ports) ==
    \/ \E c \in InviteIds \cap ids, s \in sdps : handle_invite(c, "t1", s)
    \/ \E c \in ids, s \in sdps : create_outgoing_call(c, s, gen)
    \/ \E c \in dialog_ids, code \in codes, t \in tags, s \in sdps :
            handle_response(c, code, t, s)
    \/ \E c \in dialog_ids : handle_ack(c)
    \/ \E c \in dialog_ids : handle_bye(c)
    \/ \E c \in ids : terminate_call(c)
    \/ \E a, b \in relay_ids, pa, pb \in ports :
            setup_media_relay(a, b, pa, pb)
    \/ cleanup_expired

\* Pairing, capacity and expiry: every call-id is created, paired and
\* terminated; the dialog of "a" is driven through its states.
Next ==
    \/ MgrCall(CallIds, GenIds, {"a"}, {"a"}, {None}, {200}, {None}, {20000})
    \/ Tick

Spec == Init /\ [][Next]_vars

\* Dialog states: the leg "a" receives every class of status code, with and
\* without a To tag and an SDP body, beside an outgoing leg "g1".
StateCodes == {99, 100, 180, 199, 200, 299, 300, 699, 700}

StateNext ==
    \/ MgrCall({"a", "g1"}, {"g1"}, {"a"}, {"a"}, {None, Some(SdpA)},
               StateCodes, {None, Some("t2")}, {20000})
    \/ Tick

StateSpec == Init /\ [][StateNext]_vars

\* Media relay: the incoming leg "a" and the outgoing leg "g1" carry every
\* kind of SDP body (none, audio after video, audio only, no audio, no
\* connection); the relay is set up on known and unknown legs, also with
\* the highest u16 port. The clock stands still.
RelaySdps == {None, Some(SdpA), Some(SdpB), Some(SdpNoAudio), Some(SdpNoConn)}

RelayNext ==
    MgrCall({"a"}, {"g1"}, {"g1"}, {"a", "g1"}, RelaySdps, {200}, {None},
            {20000, U16 - 1})

RelaySpec == Init /\ [][RelayNext]_vars

\* One transaction, of either kind over either transport, created at 0.
TxInit ==
    /\ MgrInit
    /\ SdpIdle
    /\ RangeIdle
    /\ TmIdle
    /\ PoolIdle
    /\ MsgIdle
    /\ tx \in {EnhancedTransaction_new(method, is_reliable, 0) :
                method \in {"INVITE", "OPTIONS"}, is_reliable \in BOOLEAN}
    /\ tx_clock = 0
    /\ tx_last = TxResult("new", 0, <<>>)

TxNext ==
    \/ \E d \in Offsets : process_timer_expiry(tx_clock + d)
    \/ \E s \in TransactionStates : transition_state(s)
    \/ TxTick

TxSpec == TxInit /\ [][TxNext]_vars

\* A transaction manager, with timers enabled or not, over two branches.
TmInit ==
    /\ MgrInit
    /\ SdpIdle
    /\ RangeIdle
    /\ TxIdle
    /\ PoolIdle
    /\ MsgIdle
    /\ tm_transactions = EmptyMap
    /\ timers_enabled \in BOOLEAN
    /\ tm_clock = 0
    /\ tm_last = TmResult("new", "", "Ok", {})

TmNext ==
    \/ \E b \in Branches, m \in Methods, r \in BOOLEAN :
            create_transaction(b, m, r)
    \/ process_timers
    \/ TmTick

TmSpec == TmInit /\ [][TmNext]_vars

\* The same manager over one branch, where process_timers keeps being
\* called and time keeps advancing.
TmFairNext ==
    \/ \E m \in Methods, r \in BOOLEAN :
            create_transaction("z9hG4bK1", m, r)
    \/ process_timers
    \/ TmTick

TmFairSpec ==
    TmInit /\ [][TmFairNext]_vars /\ WF_vars(process_timers) /\ WF_vars(TmTick)

\* A pool of any configuration shared by two threads.
PoolInit ==
    /\ MgrInit
    /\ SdpIdle
    /\ RangeIdle
    /\ TxIdle
    /\ TmIdle
    /\ MsgIdle
    /\ \E config \in PoolConfig : SipMessagePool_new(config)

PoolNext ==
    \/ \E t \in Threads : get_lock(t)
    \/ \E t \in Threads : get(t)
    \/ \E t \in Threads : drop_lock(t)
    \/ \E t \in Threads : drop(t)
    \/ \E t \in Threads : into_inner(t)

PoolSpec == PoolInit /\ [][PoolNext]_vars

\* The buffers handed to the parser: a request or status line, the six
\* headers a request must carry, in long or compact form, with one of them
\* left out or not and one more line added or not, then a blank line and a
\* body, a blank line alone, or nothing.  Every buffer ends with CR LF or
\* with a body.
Header(name, value) == <<name, COLON, SP>> \o value \o CRLF

RequestLine == <<"INVITE", SP, "sip", COLON, "bob@example.com", SP, "SIP/2.0">>
StatusLine == <<"SIP/2.0", SP, "200", SP, "OK">>

RequiredHeaders(compact) ==
    << Header(IF compact THEN "v" ELSE "Via",
              <<"SIP/2.0/UDP", SP, "client.example.com",
                ";branch=z9hG4bK776">>),
       Header(IF compact THEN "t" ELSE "To", <<"<sip", COLON, "bob>">>),
       Header(IF compact THEN "f" ELSE "From",
              <<"<sip", COLON, "alice>", ";tag=1">>),
       Header("CSeq", <<"1", SP, "INVITE">>),
       Header(IF compact THEN "i" ELSE "Call-ID", <<"a84b4c76e66710">>),
       Header("Max-Forwards", <<"70">>) >>

ExtraLines ==
    { <<>>,
      Header("Via", <<"SIP/2.0/UDP", SP, "proxy.example.com">>),
      Header("v", <<"SIP/2.0/UDP", SP, "proxy.example.com">>),
      Header("To", <<"<sip", COLON, "carol>">>),
      Header("t", <<"<sip", COLON, "carol>">>),
      Header("From", <<"<sip", COLON, "dave>">>),
      Header("f", <<"<sip", COLON, "dave>">>),
      Header("CSeq", <<"2", SP, "INVITE">>),
      Header("Call-ID", <<"f81d4fae7dec">>),
      Header("CALL-ID", <<"f81d4fae7dec">>),
      Header("i", <<"f81d4fae7dec">>),
      Header("Max-Forwards", <<"69">>),
      Header("Contact", <<"<sip", COLON, "alice@pc33>">>),
      Header("m", <<"<sip", COLON, "alice@pc33>">>),
      Header("X-Info", <<"a", CR, LF, SP, "b">>),
      <<"X-Info">> \o CRLF }

Endings == {<<>>, CRLF, CRLF \o <<"v=0">> \o CRLF}

ParseInputs ==
    { start \o CRLF
        \o Join([i \in 1..5 |-> IF omit = 0 \/ i < omit
                                    THEN RequiredHeaders(compact)[i]
                                    ELSE RequiredHeaders(compact)[i + 1]])
        \o (IF omit = 0 THEN RequiredHeaders(compact)[6] ELSE <<>>)
        \o extra \o ending :
      start \in {RequestLine, StatusLine}, compact \in BOOLEAN,
      omit \in 0..6, extra \in ExtraLines, ending \in Endings }

ParseInit ==
    /\ MgrInit
    /\ SdpIdle
    /\ RangeIdle
    /\ TxIdle
    /\ TmIdle
    /\ PoolIdle
    /\ \E B \in ParseInputs : msg = SipMessage_new(B)
    /\ modifier = None
    /\ output = None
    /\ msg_last = MsgResult("new", <<>>, "Ok", TRUE, 0)

ParseNext ==
    \/ parse
    \/ parse_without_validation

ParseSpec == ParseInit /\ [][ParseNext]_vars

----------------------------------------------------------------------------
(* Parsed requests under a modifier: a message is parsed, then either      *)
(* turned into a modifier that takes up to MaxEdits edits and is built, or *)
(* handed to create_b2bua_request.                                         *)

\* Header lines after the required ones: none, a second Via, Record-Route
\* on one line and folded over two, Contact, and a value ending in a bare LF.
ModExtras ==
    { <<>>,
      Header("Via", <<"SIP/2.0/UDP", SP, "proxy.example.com">>),
      Header("Record-Route", <<"<sip", COLON, "p1.example.com;lr>">>),
      Header("RECORD-ROUTE", <<"<sip", COLON, "p1.example.com;lr>", ",",
                               CR, LF, SP,
                               "<sip", COLON, "p2.example.com;lr>">>),
      Header("Contact", <<"<sip", COLON, "alice@pc33>">>),
      Header("CONTACT", <<"<sip", COLON, "alice@pc33>">>),
      Header("X-Info", <<"a", LF>>),
      Header("X-Info", <<"a", CR, LF, HT, "b">>) }

ModInputs ==
    { RequestLine \o CRLF \o Join(SubSeq(RequiredHeaders(compact), 1, 5))
        \o Header("Max-Forwards", <<"70">>) \o extra \o ending :
      compact \in BOOLEAN, extra \in ModExtras, ending \in Endings }
    \cup
    { RequestLine \o CRLF \o Join(SubSeq(RequiredHeaders(FALSE), 1, 5))
        \o Header("Max-Forwards", <<value>>) \o CRLF :
      value \in {"70", "10", "1", "0", "many"} }
    \cup
    { StatusLine \o CRLF \o Join(RequiredHeaders(FALSE)) \o CRLF }

\* What the edits and create_b2bua_request are given.
ModArgs ==
    [new_call_id |-> {<<>>, <<"b2bua-call-1">>},
     contact |-> {<<>>, <<"<sip", COLON, "b2bua@10.0.0.1>">>},
     via_branch |-> {"z9hG4bKb2b"},
     via_host |-> {"10.0.0.1"},
     via_port |-> {5060, 5080},
     uri |-> {<<"sip", COLON, "carol@example.com">>}]

ModInit ==
    /\ MgrInit
    /\ SdpIdle
    /\ RangeIdle
    /\ TxIdle
    /\ TmIdle
    /\ PoolIdle
    /\ \E B \in ModInputs : msg = SipMessage_new(B)
    /\ modifier = None
    /\ output = None
    /\ msg_last = MsgResult("new", <<>>, "Ok", TRUE, 0)

\* The message has been parsed with success and not been given away.
ParsedOk ==
    /\ msg.headers_parsed /\ msg_last.result = "Ok"
    /\ modifier = None /\ output = None

ModNext ==
    \/ output = None /\ parse
    \/ ParsedOk /\ into_zero_copy_modifier
    \/ strip_via_headers
    \/ strip_record_route_headers
    \/ \E new_call_id \in ModArgs.new_call_id : replace_call_id(new_call_id)
    \/ \E contact \in ModArgs.contact : set_contact(contact)
    \/ decrement_max_forwards
    \/ add_header("X-B2BUA", <<"1">>)
    \/ \E host \in ModArgs.via_host, port \in ModArgs.via_port,
          branch \in ModArgs.via_branch :
            add_via(<<"SIP/2.0/UDP", SP, host, COLON, PortText(port),
                      ";branch=", branch>>)
    \/ \E uri \in ModArgs.uri : set_request_uri(uri)
    \/ build
    \/ ParsedOk /\
         \E new_call_id \in ModArgs.new_call_id, contact \in ModArgs.contact,
            branch \in ModArgs.via_branch, host \in ModArgs.via_host,
            port \in ModArgs.via_port :
                create_b2bua_request(new_call_id, contact, branch, host, port)

ModSpec == ModInit /\ [][ModNext]_vars

----------------------------------------------------------------------------
(* SDP bodies under SessionDescription::parse: an o= line or none, a c=    *)
(* line of the session, well formed or not, or none, an audio m= line with *)
(* a port that is one or not, then a c= or an a= line or none, a video m=  *)
(* line or none, then a c= line or none; lines end with CR LF or with LF.  *)
SdpLine(field, words) ==
    <<field>> \o Join([i \in DOMAIN words |->
                          IF i = 1 THEN <<words[i]>> ELSE <<SP, words[i]>>])

SdpInputs ==
    { Join([i \in 1..7 |-> IF body[i] = <<>> THEN <<>> ELSE body[i] \o ending]) :
      body \in
        {SdpLine("v=", <<"0">>)}
        \X {<<>>, SdpLine("o=", <<"-", "1", "1", "IN", "IP4", "10.0.0.1">>)}
        \X {<<>>, SdpLine("c=", <<"IN", "IP4", "10.0.0.1">>),
            SdpLine("c=", <<"IN", "IP4">>)}
        \X {SdpLine("m=", <<"audio", "5004", "RTP/AVP", "0", "8">>),
            SdpLine("m=", <<"audio", "70000", "RTP/AVP", "0">>)}
        \X {<<>>, SdpLine("c=", <<"IN", "IP4", "10.0.0.2">>),
            SdpLine("a=", <<"sendrecv">>)}
        \X {<<>>, SdpLine("m=", <<"video", "9000", "RTP/AVP", "96">>)}
        \X {<<>>, SdpLine("c=", <<"IN", "IP4", "10.0.0.3">>)},
      ending \in {CRLF, <<LF>>} }

SdpInit ==
    /\ MgrInit
    /\ TxIdle
    /\ TmIdle
    /\ PoolIdle
    /\ MsgIdle
    /\ RangeIdle
    /\ sdp_text \in {Some(text) : text \in SdpInputs}
    /\ session = None

SdpNext == SessionDescription_parse

SdpSpec == SdpInit /\ [][SdpNext]_vars

----------------------------------------------------------------------------
(* Fields of buffers up to the default max_message_size: the offsets lie   *)
(* around the ends of the 16-bit range and of the largest buffer.          *)
RangeOffsets ==
    {0, 1, 100, 8192, 65534, 65535, 65536, 65537, 65636, 70000, 131072,
     MAX_MESSAGE_SIZE - 1, MAX_MESSAGE_SIZE}

RangeInit ==
    /\ MgrInit
    /\ TxIdle
    /\ TmIdle
    /\ PoolIdle
    /\ MsgIdle
    /\ SdpIdle
    /\ text_field \in
        {Some([buffer_len |-> len, start |-> start, end |-> end]) :
            <<start, end, len>> \in
                {t \in RangeOffsets \X RangeOffsets \X RangeOffsets :
                    t[1] <= t[2] /\ t[2] <= t[3]}}
    /\ text_range = None

RangeNext == from_usize

RangeSpec == RangeInit /\ [][RangeNext]_vars

----------------------------------------------------------------------------
(* Messages under limits: a request or a response with the required        *)
(* headers, one more header or none and a body or none, given the default  *)
(* ParserLimits or the default with one limit lowered to a few atoms, so   *)
(* that some of the messages exceed it and others do not.                  *)
LoweredLimits ==
    [max_message_size |-> 56,
     max_header_line_length |-> 7,
     max_headers |-> 6,
     max_header_name_length |-> 0,
     max_header_value_length |-> 3,
     max_uri_depth |-> 1,
     max_uri_length |-> 2,
     max_header_params |-> 0,
     max_start_line_length |-> 5,
     max_body_size |-> 1]

LimitInit ==
    /\ MgrInit
    /\ TxIdle
    /\ TmIdle
    /\ PoolIdle
    /\ SdpIdle
    /\ RangeIdle
    /\ \E start \in {RequestLine, StatusLine}, ending \in Endings,
          extra \in {<<>>, Header("X-Info", <<"a", CR, LF, SP, "b">>),
                     Header("Contact", <<"<sip", COLON, "alice@pc33>">>)},
          limits \in {ParserLimits_default}
                \cup {[ParserLimits_default EXCEPT ![f] = LoweredLimits[f]] :
                        f \in DOMAIN LoweredLimits} :
            msg = with_limits(start \o CRLF \o Join(RequiredHeaders(FALSE))
                                \o extra \o ending, limits)
    /\ modifier = None
    /\ output = None
    /\ msg_last = MsgResult("new", <<>>, "Ok", TRUE, 0)

LimitSpec == LimitInit /\ [][ParseNext]_vars

----------------------------------------------------------------------------
(* Claims about pairing, capacity and expiry, checked under Spec *)

\* A step that is a call of the manager (the clock stands still during it).
IsCall(op) == now' = now /\ last'.op = op

\* C1: in every reachable manager state the pairing map is symmetric:
\* call_pairs[a] = b if and only if call_pairs[b] = a.
C1_PairingSymmetric ==
    \A a \in DOMAIN call_pairs :
        /\ call_pairs[a] \in DOMAIN call_pairs
        /\ call_pairs[call_pairs[a]] = a

\* C2: the number of call legs the manager holds never exceeds max_calls.
C2_CallsWithinCapacity == Cardinality(DOMAIN calls) <= MaxCalls

\* What C5 says of one step of the manager.
C5_CreateStep ==
    IsCall("create_outgoing_call") =>
        LET a == last'.call_id
        IN IF a \in DOMAIN calls
             THEN /\ last'.result = "Ok"
                  /\ MapGet(call_pairs', a) = last'.ret
                  /\ MapGet(call_pairs', Unwrap(last'.ret)) = Some(a)
             ELSE /\ last'.result = "StateError"
                  /\ <<calls, call_pairs, transactions>>' =
                        <<calls, call_pairs, transactions>>

C5_TerminateStep ==
    /\ last.op = "create_outgoing_call" /\ last.result = "Ok"
    /\ last'.op = "terminate_call" /\ last'.call_id = last.call_id
    => /\ last.call_id \notin DOMAIN call_pairs'
       /\ Unwrap(last.ret) \notin DOMAIN call_pairs'

\* C5: once create_outgoing_call(a) has returned b, a and b are each other's
\* peer; a terminate_call(a) that follows leaves neither with a pairing
\* entry; create_outgoing_call on an unknown call-id fails and changes nothing.
C5_PairThenUnpair == [][C5_CreateStep /\ C5_TerminateStep]_vars

C5_Witness ==
    /\ last.op = "create_outgoing_call" /\ last.result = "Ok"
    /\ MapGet(call_pairs, last.call_id) = last.ret
    /\ MapGet(call_pairs, Unwrap(last.ret)) = Some(last.call_id)

\* C6: for every leg x the manager holds, x.peer_leg_id is Some(y) exactly
\* when call_pairs[x] = y, and y is then a leg whose peer_leg_id is Some(x).
C6_PeerConsistent ==
    \A x \in DOMAIN calls :
        /\ calls[x].peer_leg_id = MapGet(call_pairs, x)
        /\ IsSome(calls[x].peer_leg_id) =>
             LET y == Unwrap(calls[x].peer_leg_id)
             IN y \in DOMAIN calls /\ calls[y].peer_leg_id = Some(x)

\* What C7 says of one step of the manager.
C7_CleanupStep ==
    IsCall("cleanup_expired") =>
        LET ret == last'.ret
        IN /\ DOMAIN calls' = DOMAIN calls \ Expired
           /\ {ret[i] : i \in DOMAIN ret} = Expired
           /\ \A i, j \in DOMAIN ret : ret[i] = ret[j] => i = j

\* C7: cleanup_expired removes exactly the legs idle for longer than
\* call_timeout_seconds and returns exactly their call-ids, each once.
C7_CleanupReturnsExpired == [][C7_CleanupStep]_vars

----------------------------------------------------------------------------
(* Claims about dialog states, checked under StateSpec *)

CallStates ==
    {"Idle", "Calling", "Proceeding", "Connecting", "Connected",
     "Disconnecting", "Terminated", "Failed"}

\* The leg states scenario S6 expects after each of its calls.
ScenarioStates ==
    <<Calling, Proceeding, Proceeding, Connecting, Connected, Disconnecting>>

\* C3: on a known call-id handle_response leaves the leg in Proceeding for a
\* code in 100-199, in Connecting for 200-299 and in Failed for 300-699,
\* always one of the listed call states; INVITE, 100, 180, 200, ACK, BYE on
\* one leg yield Calling, Proceeding, Proceeding, Connecting, Connected,
\* Disconnecting.
C3_ResponseTransitions ==
    /\ last.op = "handle_response" /\ last.call_id \in DOMAIN calls =>
          LET state == calls[last.call_id].state
              code == last.arg
          IN /\ code \in 100..199 => last.result = "Ok" /\ state = Proceeding
             /\ code \in 200..299 => last.result = "Ok" /\ state = Connecting
             /\ code \in 300..699 => last.result = "Ok" /\ state.tag = "Failed"
             /\ state.tag \in CallStates
    /\ scenario >= 1 =>
          /\ "a" \in DOMAIN calls
          /\ calls["a"].state = ScenarioStates[scenario]

C3_Witness ==
    /\ scenario = Len(Scenario)
    /\ last.op = "handle_bye"
    /\ calls["a"].state = Disconnecting

\* What C4 says of one step of the manager.
C4_AckStep ==
    IsCall("handle_ack") =>
        LET c == last'.call_id
        IN IF c \in DOMAIN calls /\ calls[c].state = Connecting
             THEN /\ last'.result = "Ok"
                  /\ calls'[c].state = Connected
             ELSE /\ last'.result = "StateError"
                  /\ <<calls, call_pairs, transactions>>' =
                        <<calls, call_pairs, transactions>>

C4_ConnectedStep ==
    \A c \in DOMAIN calls' :
        /\ calls'[c].state = Connected
        /\ c \notin DOMAIN calls \/ calls[c].state # Connected
        => /\ IsCall("handle_ack") /\ last'.call_id = c
           /\ c \in DOMAIN calls /\ calls[c].state = Connecting

\* C4: handle_ack succeeds exactly when the leg is in Connecting and then
\* moves it to Connected; otherwise (another state, an unknown call-id) it
\* returns a StateError and changes nothing; no other call moves a leg into
\* Connected.
C4_AckOnlyFromConnecting == [][C4_AckStep /\ C4_ConnectedStep]_vars

C4_Witness ==
    /\ last.op = "handle_ack" /\ last.result = "Ok"
    /\ calls[last.call_id].state = Connected

----------------------------------------------------------------------------
(* Claims about the media relay, checked under RelaySpec *)

\* The relay points at the session address and at the port of the first
\* audio media of the SDP body.
PointsAt(relay, sdp) ==
    /\ IsSome(relay) /\ IsSome(sdp)
    /\ LET r == Unwrap(relay)
           d == Unwrap(sdp)
       IN /\ d.connection = Some(r.remote_rtp_address)
          /\ \E i \in DOMAIN d.media_descriptions :
                /\ d.media_descriptions[i].media_type = "audio"
                /\ d.media_descriptions[i].port = r.remote_rtp_port
                /\ \A j \in 1..(i - 1) :
                        d.media_descriptions[j].media_type # "audio"

\* The leg is unknown, has no SDP or has an SDP without audio media.
NoAudioLeg(call_id) ==
    \/ call_id \notin DOMAIN calls
    \/ calls[call_id].sdp = None
    \/ \A i \in DOMAIN Unwrap(calls[call_id].sdp).media_descriptions :
            Unwrap(calls[call_id].sdp).media_descriptions[i].media_type
                # "audio"

\* What C8 says of one step of the manager.
C8_RelayStep ==
    IsCall("setup_media_relay") =>
        LET a == last'.call_id
            b == last'.call_id_b
        IN /\ NoAudioLeg(a) \/ NoAudioLeg(b) => last'.result = "StateError"
           /\ last'.result # "Ok" =>
                <<calls, call_pairs, transactions>>' =
                    <<calls, call_pairs, transactions>>
           /\ last'.result = "Ok" =>
                /\ PointsAt(calls'[a].media_relay, calls[b].sdp)
                /\ PointsAt(calls'[b].media_relay, calls[a].sdp)

\* C8: a successful setup_media_relay(a, b, ..) leaves leg a with a relay
\* pointing at the address and first audio port of leg b's SDP and leg b
\* with one pointing at leg a's SDP; it fails whenever a leg is unknown, has
\* no SDP or no audio media; a failed call leaves every leg's media_relay
\* as it was.
C8_RelayFromPeerSdp == [][C8_RelayStep]_vars

C8_Witness ==
    /\ last.op = "setup_media_relay" /\ last.result = "Ok"
    /\ last.call_id # last.call_id_b
    /\ calls[last.call_id].sdp # calls[last.call_id_b].sdp
    /\ PointsAt(calls[last.call_id].media_relay, calls[last.call_id_b].sdp)
    /\ PointsAt(calls[last.call_id_b].media_relay, calls[last.call_id].sdp)

----------------------------------------------------------------------------
(* Claims about transaction timers, checked under TxSpec *)

IsTxCall(op) == tx_clock' = tx_clock /\ tx_last'.op = op

\* C9: the events one process_timer_expiry call returns are ordered by the
\* expiry time of the timers that produced them, earliest first.
C9_EventsInExpiryOrder ==
    tx_last.op = "process_timer_expiry" =>
        \A i, j \in DOMAIN tx_last.events :
            i < j => tx_last.events[i].expiry <= tx_last.events[j].expiry

Retransmits(events) ==
    Cardinality({i \in DOMAIN events : events[i].event = "Retransmit"})

\* What C10 says of one step of the transaction.
C10_Step ==
    /\ tx'.current_retransmit_interval >= tx.current_retransmit_interval
    /\ tx'.current_retransmit_interval <= T2
    /\ IsTxCall("process_timer_expiry") =>
          LET n == Retransmits(tx_last'.events)
              doubled == 2 * tx.current_retransmit_interval
          IN /\ n <= 1
             /\ tx'.retransmission_count = tx.retransmission_count + n
             /\ n = 0 => UNCHANGED <<tx.current_retransmit_interval>>
             /\ n = 1 => tx'.current_retransmit_interval =
                            IF doubled <= T2 THEN doubled ELSE T2

\* C10: current_retransmit_interval never decreases and never exceeds T2;
\* a call in which Timer A or E expires doubles it up to T2, and every
\* Retransmit event adds exactly one to retransmission_count.
C10_BackoffMonotoneCapped == [][C10_Step]_vars

C10_Witness ==
    /\ tx_last.op = "process_timer_expiry"
    /\ Retransmits(tx_last.events) = 1
    /\ tx.retransmission_count >= 5
    /\ tx.current_retransmit_interval = T2

----------------------------------------------------------------------------
(* Claims about the transaction manager, checked under TmSpec and, for     *)
(* what it eventually does, under TmFairSpec                               *)

IsTmCall(op) == tm_clock' = tm_clock /\ tm_last'.op = op

TimerNames(t) == {t.active_timers[i].name : i \in DOMAIN t.active_timers}

\* The timers EnhancedTransaction::new is to arm.
InitialTimers(method, is_reliable) ==
    IF method = "INVITE"
      THEN (IF is_reliable THEN {"B"} ELSE {"A", "B"})
      ELSE (IF is_reliable THEN {"F"} ELSE {"E", "F"})

\* What C11 says of one step of the transaction manager.
C11_Step ==
    \A b \in DOMAIN tm_transactions' \ DOMAIN tm_transactions :
        LET t == tm_transactions'[b]
            expected == InitialTimers(t.method, t.is_reliable)
        IN /\ t.state = "Calling"
           /\ t.retransmission_count = 0
           /\ TimerNames(t) = expected
           /\ Len(t.active_timers) = Cardinality(expected)

\* C11: a newly created transaction is in state Calling with
\* retransmission_count 0 and exactly the timers A and B (INVITE,
\* unreliable), B (INVITE, reliable), E and F (other method, unreliable) or
\* F (other method, reliable).
C11_NewTransactionTimers == [][C11_Step]_vars

C11_Witness ==
    /\ tm_last.op = "create_transaction" /\ tm_last.result = "Ok"
    /\ \E b, c \in DOMAIN tm_transactions :
          /\ tm_transactions[b].method = "INVITE"
          /\ tm_transactions[b].is_reliable
          /\ tm_transactions[b].active_timers =
                <<Timer("B", tm_transactions[b].created_at + 32)>>
          /\ tm_transactions[c].method = "OPTIONS"
          /\ ~tm_transactions[c].is_reliable
          /\ tm_transactions[c].retransmission_count = 0
          /\ TimerNames(tm_transactions[c]) = {"E", "F"}

\* What C12 says of one step of the transaction manager.
C12_Step ==
    IsTmCall("create_transaction") =>
        IF tm_last'.branch_id \in DOMAIN tm_transactions
          THEN /\ tm_last'.result = "StateError"
               /\ tm_transactions' = tm_transactions
          ELSE /\ tm_last'.result = "Ok"
               /\ DOMAIN tm_transactions' =
                    DOMAIN tm_transactions \cup {tm_last'.branch_id}
               /\ \A b \in DOMAIN tm_transactions :
                    tm_transactions'[b] = tm_transactions[b]

\* C12: create_transaction on a branch the manager already holds returns a
\* StateError and leaves the transaction of that branch, and every other,
\* as it was; the manager holds one transaction per branch.
C12_DuplicateBranchRejected == [][C12_Step]_vars

C12_Witness ==
    /\ tm_last.op = "create_transaction" /\ tm_last.result = "StateError"
    /\ tm_last.branch_id \in DOMAIN tm_transactions
    /\ tm_transactions[tm_last.branch_id].retransmission_count > 0

\* The number of Timeout events process_timers returned for the branch.
Timeouts(all_events, b) ==
    Cardinality({<<p, i>> \in all_events \X (1..2) :
                    /\ p[1] = b
                    /\ i \in DOMAIN p[2]
                    /\ p[2][i].event = "Timeout"})

C14_NoneTerminated ==
    timers_enabled /\ tm_last.op = "process_timers" =>
        \A b \in DOMAIN tm_transactions :
            tm_transactions[b].state # "Terminated"

\* A transaction leaves the manager in the call that returns its Timeout,
\* and no call returns a Timeout for a transaction it keeps.
C14_Step ==
    /\ DOMAIN tm_transactions \subseteq DOMAIN tm_transactions' \/
            IsTmCall("process_timers")
    /\ timers_enabled /\ IsTmCall("process_timers") =>
          \A b \in DOMAIN tm_transactions :
              Timeouts(tm_last'.all_events, b) =
                  IF b \in DOMAIN tm_transactions' THEN 0 ELSE 1

C14_Removed ==
    \A b \in Branches :
        (timers_enabled /\ b \in DOMAIN tm_transactions)
            ~> (b \notin DOMAIN tm_transactions)

\* C14: with timers enabled the manager holds no Terminated transaction
\* after a process_timers call, and every transaction created in it is
\* eventually removed, in the one call that returns its Timeout event, as
\* long as process_timers keeps being called while time advances.
C14_TimeoutOnceThenRemoved ==
    /\ []C14_NoneTerminated
    /\ [][C14_Step]_vars
    /\ C14_Removed

C14_Witness ==
    /\ timers_enabled /\ tm_last.op = "process_timers"
    /\ \E b \in Branches :
          /\ Timeouts(tm_last.all_events, b) = 1
          /\ b \notin DOMAIN tm_transactions
          /\ \E p \in tm_last.all_events : p[1] = b /\ Len(p[2]) = 2
    /\ tm_clock = TmHorizon

----------------------------------------------------------------------------
(* Claims about state transitions, checked under TxSpec *)

\* What C13 says of one step of the transaction.
C13_Step ==
    IsTxCall("transition_state") =>
        LET names == TimerNames(tx')
        IN /\ tx'.state = "Proceeding" =>
                /\ names \cap {"A", "E"} = {}
                /\ tx.method = "INVITE" => "C" \in names
           /\ tx'.state = "Completed" =>
                /\ names \cap {"A", "C", "E"} = {}
                /\ "D" \in names <=> ~tx.is_reliable
           /\ tx'.state = "Terminated" => tx'.active_timers = <<>>

\* C13: transition_state(Proceeding) leaves no A or E timer active and arms
\* Timer C on an INVITE; transition_state(Completed) leaves no A, C or E
\* timer active and arms Timer D exactly on unreliable transport;
\* transition_state(Terminated) leaves no active timer.
C13_TransitionTimers == [][C13_Step]_vars

C13_Witness ==
    /\ tx_last.op = "transition_state"
    /\ tx.state = "Completed" /\ tx.method = "INVITE" /\ ~tx.is_reliable
    /\ TimerNames(tx) = {"B", "D"}
    /\ tx.retransmission_count > 0

----------------------------------------------------------------------------
(* Claims about the message pool, checked under PoolSpec *)

\* C15: whatever the PoolConfig and however get() calls and handle drops of
\* the threads interleave, the pool never holds more than max_size shells.
C15_PoolWithinMaxSize == Len(pool) <= pool_max_size

----------------------------------------------------------------------------
(* Claims about the parser, checked under ParseSpec.  The claims speak of  *)
(* the headers a buffer carries: those are read off the buffer as RFC 3261 *)
(* defines them, apart from the parser.                                    *)

\* The lines of a header section: cut at each CR LF that no SP or HT
\* follows, so that a folded header is one line.
RECURSIVE HeaderLines(_)
HeaderLines(text) ==
    Bind(text, LAMBDA s :
        LET ends == {i \in 0..(Len(s) - 2) :
                        /\ StartsWithAt(s, CRLF, i)
                        /\ i + 2 < Len(s) => s[i + 3] \notin {SP, HT}}
        IN IF s = <<>> THEN <<>>
           ELSE IF ends = {} THEN <<s>>
           ELSE LET end == CHOOSE i \in ends : \A j \in ends : i <= j
                IN <<Slice(s, 0, end)>>
                       \o HeaderLines(Slice(s, end + 2, Len(s))))

\* What lies between the start line and the blank line or the end.
HeaderSection(raw) ==
    LET rest == Slice(raw, Unwrap(Find(raw, CRLF)) + 2, Len(raw))
        blank == Find(rest, CRLF \o CRLF)
    IN IF blank = None THEN rest ELSE Slice(rest, 0, Unwrap(blank) + 2)

\* The header of a line: its name, in lower case and with a compact form
\* read by the parser's table, its value with the folds and the blanks
\* around it taken away, and the line.  A line without a colon, or with
\* blanks inside the name, names no header.
HeaderOf(line) ==
    LET colon == Find(line, <<COLON>>)
        name == IF colon = None THEN <<>>
                ELSE Slice(line, 0, Unwrap(colon))
        rest == IF colon = None THEN <<>>
                ELSE Slice(line, Unwrap(colon) + 1, Len(line))
    IN [name |-> IF Len(name) # 1 THEN ""
                 ELSE expand_compact_header(to_lowercase(name[1])),
        value |-> Trim(Replace(Replace(rest, <<CR, LF, SP>>, <<SP>>),
                               <<CR, LF, HT>>, <<SP>>)),
        line |-> line]

\* Each line names a header and gives it a value without CR or LF.
WellFormed(headers) ==
    \A i \in DOMAIN headers :
        /\ headers[i].name # ""
        /\ \A j \in DOMAIN headers[i].value :
                headers[i].value[j] \notin {CR, LF}

HeadersOf(raw) ==
    Bind(HeaderLines(HeaderSection(raw)), LAMBDA lines :
        [i \in DOMAIN lines |-> HeaderOf(lines[i])])

Occurrences(headers, name) ==
    Cardinality({i \in DOMAIN headers : headers[i].name = name})

RequiredNames ==
    [via |-> "Via", to |-> "To", from |-> "From", cseq |-> "CSeq",
     callid |-> "Call-ID", maxforwards |-> "Max-Forwards"]

\* What the claim says of a first parse of a request with well-formed
\* header lines; via_counts are the numbers of Via headers under
\* which the parse is to succeed.
RequiredDecideParse(via_counts) ==
    /\ msg_last.op = "parse" /\ msg_last.fresh
    /\ StartsWithAt(msg.raw_message, RequestLine \o CRLF, 0)
    => \E headers \in {HeadersOf(msg.raw_message)} :
        WellFormed(headers) =>
        LET Count(k) == Occurrences(headers, to_lowercase(RequiredNames[k]))
            missing == {k \in DOMAIN RequiredNames : Count(k) = 0}
            twice == {k \in DOMAIN RequiredNames \ {"via"} : Count(k) > 1}
        IN /\ msg_last.result = "Ok" <=>
                /\ Count("via") \in via_counts
                /\ \A k \in DOMAIN RequiredNames \ {"via"} : Count(k) = 1
           /\ missing # {} /\ twice = {} =>
                \E k \in missing :
                    msg_last.result =
                        "Missing required " \o RequiredNames[k] \o " header"
           /\ twice # {} =>
                \E k \in twice :
                    msg_last.result =
                        "Duplicate " \o RequiredNames[k] \o " header"

----------------------------------------------------------------------------
(* Claims about the modifier, checked under ModSpec.                       *)

\* A buffer without the CR LF pairs it ends with.
RECURSIVE WithoutEndingCRLFs(_)
WithoutEndingCRLFs(bytes) ==
    Bind(bytes, LAMBDA s :
        IF Len(s) >= 2 /\ StartsWithAt(s, CRLF, Len(s) - 2)
          THEN WithoutEndingCRLFs(Slice(s, 0, Len(s) - 2))
          ELSE s)

\* C19: a modifier that took no edit builds the buffer the message was
\* parsed from, but for the CR LF pairs that end it.
C19_NoEditBuildIsSource ==
    /\ msg_last.op = "build"
    /\ msg_last.arg = ZeroCopyModifier_new(msg)
    => WithoutEndingCRLFs(Unwrap(output))
            = WithoutEndingCRLFs(msg.raw_message)

\* The values of the headers of a name, in the order of the buffer.
ValuesOf(raw, name) ==
    Bind(HeadersOf(raw), LAMBDA headers :
        LET named == SelectSeq(headers, LAMBDA h : h.name = name)
        IN [i \in DOMAIN named |-> named[i].value])

\* The number a value is the decimal text of, if it is one.
Decimal(value) ==
    IF Len(value) # 1 THEN None
    ELSE CASE value[1] = "0" -> Some(0)
           [] value[1] = "1" -> Some(1)
           [] value[1] = "9" -> Some(9)
           [] value[1] = "10" -> Some(10)
           [] value[1] = "69" -> Some(69)
           [] value[1] = "70" -> Some(70)
           [] OTHER -> None

\* C16: with decrement_max_forwards among the edits, the Max-Forwards of
\* the output is one less than the received one, or 69 if that is no
\* number (a received value that leaves nothing above 0 aside).
C16_MaxForwardsDecremented ==
    /\ StartsWithAt(msg.raw_message, RequestLine, 0)
    /\ msg_last.op = "build"
    /\ "Max-Forwards" \in DOMAIN msg_last.arg.modified_headers
    => \E received \in
            {Decimal(ValuesOf(msg.raw_message, "max-forwards")[1])} :
        (IsSome(received) => Unwrap(received) >= 2) =>
        LET sent == ValuesOf(Unwrap(output), "max-forwards")
        IN /\ Len(sent) = 1
           /\ IsSome(Decimal(sent[1]))
           /\ IF IsSome(received)
                THEN Unwrap(Decimal(sent[1])) = Unwrap(received) - 1
                ELSE Unwrap(Decimal(sent[1])) = 69

\* C17: the request create_b2bua_request returns begins its headers with
\* the Via 'SIP/2.0/UDP host:port;branch=<branch>', has no other Via and
\* no Record-Route, one Call-ID, the new one, and one Contact, the given
\* one, whatever the case or form of the names in the request received.
C17_B2buaRequestHeaders ==
    /\ StartsWithAt(msg.raw_message, RequestLine, 0)
    /\ msg_last.op = "create_b2bua_request"
    /\ msg_last.result = "Ok"
    => \E headers \in {HeadersOf(Unwrap(output))} :
        LET new_call_id == msg_last.arg[1]
            contact == msg_last.arg[2]
            branch == msg_last.arg[3]
            host == msg_last.arg[4]
            port == msg_last.arg[5]
        IN /\ headers # <<>>
           /\ headers[1].name = "via"
           /\ headers[1].value = <<"SIP/2.0/UDP", SP, host, COLON,
                                   PortText(port), ";branch=", branch>>
           /\ Occurrences(headers, "via") = 1
           /\ Occurrences(headers, "record-route") = 0
           /\ ValuesOf(Unwrap(output), "call-id") = <<new_call_id>>
           /\ ValuesOf(Unwrap(output), "contact") = <<contact>>

\* The first sequence is the second with some of its elements left out.
RECURSIVE IsSubsequence(_)
IsSubsequence(pair) ==
    Bind(pair, LAMBDA p :
        IF p[1] = <<>> THEN TRUE
        ELSE IF p[2] = <<>> THEN FALSE
        ELSE IF Head(p[1]) = Head(p[2])
          THEN IsSubsequence(<<Tail(p[1]), Tail(p[2])>>)
          ELSE IsSubsequence(<<p[1], Tail(p[2])>>))

\* What follows the blank line.
BodyOf(raw) ==
    LET blank == Find(raw, CRLF \o CRLF)
    IN IF blank = None THEN <<>>
       ELSE Slice(raw, Unwrap(blank) + 4, Len(raw))

\* The names a modifier strips or gives a new value, in lower case.
Touched(mod) ==
    {to_lowercase(mod.stripped_headers[i]) : i \in DOMAIN mod.stripped_headers}
        \cup {to_lowercase(k) : k \in DOMAIN mod.modified_headers}

\* Each line of the buffer ends with CR LF, none with LF alone.
OnlyCRLF(raw) ==
    \A i \in DOMAIN raw : raw[i] = LF => i > 1 /\ raw[i - 1] = CR

\* C18: build() after an edit that strips or replaces headers writes every
\* other header of the source as it stands there, folds included, in the
\* order of the source, and the body as it stands.
C18_UntouchedHeadersCopied ==
    /\ msg_last.op = "build"
    /\ Touched(msg_last.arg) # {}
    /\ OnlyCRLF(msg.raw_message)
    => \E source \in {HeadersOf(msg.raw_message)},
          built \in {HeadersOf(Unwrap(output))} :
        LET untouched ==
                SelectSeq(source,
                          LAMBDA h : h.name \notin Touched(msg_last.arg))
        IN /\ IsSubsequence(
                <<[i \in DOMAIN untouched |-> untouched[i].line],
                  [i \in DOMAIN built |-> built[i].line]>>)
           /\ BodyOf(Unwrap(output)) = BodyOf(msg.raw_message)

----------------------------------------------------------------------------
(* Further claims about dialog states, checked under StateSpec *)

\* The place of a leg state in the order Idle, Calling, Proceeding,
\* Connecting, Connected, Disconnecting, Terminated; Failed ends a call as
\* Terminated does.
StateRank(state) ==
    CASE state.tag = "Idle" -> 0
      [] state.tag = "Calling" -> 1
      [] state.tag = "Proceeding" -> 2
      [] state.tag = "Connecting" -> 3
      [] state.tag = "Connected" -> 4
      [] state.tag = "Disconnecting" -> 5
      [] state.tag \in {"Terminated", "Failed"} -> 6

C24_Step ==
    \A c \in DOMAIN calls \cap DOMAIN calls' :
        \/ calls'[c].state.tag = "Failed"
        \/ StateRank(calls'[c].state) >= StateRank(calls[c].state)

\* C24: no call moves a leg that stays in the manager to a state earlier in
\* the order than the one it is in, unless to Failed.
C24_StatesOnlyForward == [][C24_Step]_vars

C29_Step ==
    IsCall("handle_response") /\ last'.result # "Ok" =>
        <<calls, call_pairs, transactions>>' =
            <<calls, call_pairs, transactions>>

\* C29: a handle_response call that returns an error leaves the manager as
\* it was: legs, pairing and transactions.
C29_FailedResponseChangesNothing == [][C29_Step]_vars

----------------------------------------------------------------------------
(* Further claims about the transaction, checked under TxSpec *)

\* The events of a kind among those a call returned.
EventsOf(events, kind) == {i \in DOMAIN events : events[i].event = kind}

\* C25: an INVITE transaction over unreliable transport retransmits no
\* sooner than T1 after its creation, arms Timer A after a Retransmit no
\* sooner than the interval then in force, and times out no sooner than
\* 64*T1 after its creation (times in ms, the clock in s).
C25_TimerATiming ==
    /\ tx_last.op = "process_timer_expiry"
    /\ tx.method = "INVITE" /\ ~tx.is_reliable
    => LET elapsed == (tx_last.arg - tx.created_at) * 1000
       IN /\ EventsOf(tx_last.events, "Retransmit") # {} =>
                /\ elapsed >= T1
                /\ \A i \in DOMAIN tx.active_timers :
                        tx.active_timers[i].name = "A" =>
                            (tx.active_timers[i].expiry - tx_last.arg) * 1000
                                >= tx.current_retransmit_interval
          /\ EventsOf(tx_last.events, "Timeout") # {} => elapsed >= 64 * T1

C26_Step ==
    /\ tx'.state = "Terminated" => tx'.active_timers = <<>>
    /\ IsTxCall("process_timer_expiry") /\ tx.state = "Terminated" =>
            tx_last'.events = <<>> /\ tx' = tx

\* C26: a Terminated transaction has no active timers, and
\* process_timer_expiry on it returns no event and changes nothing.
C26_TerminatedHasNoTimers == [][C26_Step]_vars

C27_Step ==
    IsTxCall("process_timer_expiry")
        /\ tx.state \in {"Proceeding", "Completed"} =>
            EventsOf(tx_last'.events, "Timeout") = {}

\* C27: process_timer_expiry on a transaction that transition_state moved
\* to Proceeding or Completed returns no Timeout (Timer B and F emit one
\* when they terminate it).
C27_NoTimeoutAfterCalling == [][C27_Step]_vars

\* C28: no two active timers of a transaction bear the same name.
C28_OneTimerPerName ==
    \A i, j \in DOMAIN tx.active_timers :
        tx.active_timers[i].name = tx.active_timers[j].name => i = j

----------------------------------------------------------------------------
(* Claims about the limits of the parser, checked under LimitSpec *)

\* The message exceeds one of the limits it was given on what parsing
\* reads: the message, its start line, its header lines, their number,
\* their names and values, and the body.
ExceedsLimits(m) ==
    LET raw == m.raw_message
        headers == HeadersOf(raw)
    IN \/ Len(raw) > m.limits.max_message_size
       \/ Unwrap(Find(raw, CRLF)) > m.limits.max_start_line_length
       \/ Len(headers) > m.limits.max_headers
       \/ Len(BodyOf(raw)) > m.limits.max_body_size
       \/ \E i \in DOMAIN headers :
            \/ Len(headers[i].line) > m.limits.max_header_line_length
            \/ Unwrap(Find(headers[i].line, <<COLON>>))
                    > m.limits.max_header_name_length
            \/ Len(headers[i].value) > m.limits.max_header_value_length

\* C22: parse() and parse_without_validation() return an error for a
\* message that exceeds one of its ParserLimits.
C22_LimitsEnforced ==
    /\ msg_last.op \in {"parse", "parse_without_validation"}
    /\ ExceedsLimits(msg)
    => msg_last.result # "Ok"

----------------------------------------------------------------------------
(* Claims about TextRange, checked under RangeSpec *)

\* C21: the range stored for a field of a buffer no longer than the
\* default max_message_size has start <= end <= the buffer's length, and
\* its offsets are those of the field.
C21_RangeDesignatesField ==
    text_range # None =>
        /\ Unwrap(text_range)[1] <= Unwrap(text_range)[2]
        /\ Unwrap(text_range)[2] <= Unwrap(text_field).buffer_len
        /\ Unwrap(text_range)
            = <<Unwrap(text_field).start, Unwrap(text_field).end>>

----------------------------------------------------------------------------
(* Claims about SessionDescription::parse, checked under SdpSpec *)

\* The lines of the text that open with the field given, by their place
\* among the lines.
FieldLines(field) ==
    LET lines == Lines(Unwrap(sdp_text))
    IN {i \in DOMAIN lines : lines[i] # <<>> /\ Head(lines[i]) = field}

\* The connection a c= line states.
ConnectionAt(i) ==
    parse_connection(Trim(Tail(Lines(Unwrap(sdp_text))[i]))).value

\* The c= lines that follow the m= line at m and come before the next one.
MediaConnections(m) ==
    {c \in FieldLines("c=") :
        m < c /\ \A n \in FieldLines("m=") : n > m => c < n}

\* The c= lines that come before the first m= line.
SessionConnections ==
    {c \in FieldLines("c=") : \A m \in FieldLines("m=") : c < m}

\* C23: after a parse with success, a media description whose m= line is
\* followed by a c= line holds that connection, and the session holds the
\* connection of the c= line before the first m= line, or none.
C23_MediaConnectionOverrides ==
    session # None /\ Unwrap(session).result = "Ok" =>
        LET parsed == Unwrap(session).value
        IN /\ \A m \in FieldLines("m=") : \A c \in MediaConnections(m) :
                LET k == Cardinality({n \in FieldLines("m=") : n <= m})
                IN parsed.media_descriptions[k].connection
                        = Some(ConnectionAt(c))
           /\ parsed.connection =
                IF SessionConnections = {} THEN None
                ELSE Some(ConnectionAt(CHOOSE c \in SessionConnections :
                            \A d \in SessionConnections : d <= c))

----------------------------------------------------------------------------
(* Further claims about the parser, checked under ParseSpec *)

\* What parsing records of the headers of a message.
Recorded(m) ==
    <<m.to, m.from, m.cseq, m.call_id, m.max_forwards, m.via_headers,
      m.contact_headers, m.headers>>

C30_Step ==
    /\ msg_last.op = "parse"
    /\ msg_last'.op = "parse" /\ msg_last'.parses = msg_last.parses + 1
    => /\ msg_last'.result = msg_last.result
       /\ Recorded(msg') = Recorded(msg)

\* C30: parse() on a message that parse() was called on before returns
\* what that call returned and leaves the header slots and the lists of
\* Via, Contact and other headers as that call left them.
C30_ParseIdempotent == [][C30_Step]_vars

====
